---- MODULE Spec2Model ----
(***************************************************************************)
(* Call-center trainer: the GeminiService call session (transcript         *)
(* accumulation, playback scheduling, teardown) and its evaluation engine  *)
(* (generateEvaluation), modelled from src/services/geminiService.ts.      *)
(*                                                                         *)
(* Text is a sequence of characters, so that String.prototype.trim and     *)
(* += are modelled by what they do.  A JavaScript value that may be        *)
(* undefined is a sequence of length 0 (undefined) or 1 (the value).       *)
(***************************************************************************)
EXTENDS Integers, Sequences, FiniteSets, TLC

VARIABLES
    transcriptionHistory,        \* Array<{role, text}>
    currentInputTranscription,   \* agent ('user') partial buffer
    currentOutputTranscription,  \* customer ('model') partial buffer
    session,                     \* this.session: 0 (null), or the connect() call whose
                                 \* Session object it holds
    calls,                       \* one record per connect() call so far: where the call is
                                 \* suspended (pc), its transport, and the `mounted` flag of
                                 \* the LiveCall effect that issued it
    status,                      \* LiveCall's status: connecting / connected / error
    capture,                     \* mediaStreamSource/audioProcessor graph
    outputAudioContext,          \* "null" or "running"
    currentTime,                 \* outputAudioContext.currentTime
    nextStartTime,               \* playback cursor
    sources,                     \* Set<AudioBufferSourceNode>
    decoding,                    \* onmessage handlers suspended in decodeAudioData, in the
                                 \* order in which they reached the await
    started,                     \* the sources started since connect(), in start order
    nMessages,                   \* inbound messages handled so far
    heard,                       \* per speaker, the non-space text received since connect()
    last,                        \* the operation that produced this state, with its pre-state
    evalPc,                      \* generateEvaluation: idle / awaiting / returned
    evalConfig,                  \* the SimulationConfig passed to generateEvaluation
    prompt,                      \* the transcript formatted into the evaluation prompt
    response,                    \* the generator's outcome for the pending request
    result,                      \* the EvaluationResult returned (<<>> before)
    learningHistory,             \* LearningExample[], newest first
    storage,                     \* localStorage 'ai_training_data': <<>> or <<array>>
    correction,                  \* the arguments of the last submitCorrection and the
                                 \* store it found (<<>> before any call)
    recorded,                    \* the number of examples ever recorded
    codec,                       \* a block of samples on its way through pcmToBase64 and
                                 \* decodeAudioData
    forwardTo,                   \* the connect() call whose sessionPromise the installed
                                 \* onaudioprocess handler closes over (0: none installed)
    blocks,                      \* capture blocks delivered to onaudioprocess so far
    pendingSends,                \* sessionPromise.then callbacks not yet run, in
                                 \* registration order
    sent,                        \* the frames passed to session.sendRealtimeInput, in order
    visualizer,                  \* the updateVisualizer loops with a frame requested, and
                                 \* what the loop that ran last did
    appState,                    \* App: SETUP / CALL / GENERATING_REPORT / REPORT
    appConfig,                   \* App's config state: <<>> (null) or <<SimulationConfig>>
    hostPc,                      \* what App has pending: idle, mount (LiveCall's effect is
                                 \* due), disconnected (handleEndCall at its await of
                                 \* disconnect()), evaluating (at its await of
                                 \* generateEvaluation)
    report,                      \* FeedbackReport's editableResult (<<>> while not shown)
    teardown,                    \* the transcript and the buffers that handleEndCall's
                                 \* disconnect() found (<<>> before)
    resultArray                  \* the array object result.transcription refers to: the
                                 \* number of the connect() that created it, and its
                                 \* content once the service has replaced it

sessionVars == <<transcriptionHistory, currentInputTranscription, currentOutputTranscription,
                 session, calls, status, capture, outputAudioContext, currentTime,
                 nextStartTime, sources, decoding, started, nMessages, heard>>
evalVars == <<evalPc, evalConfig, prompt, response, result>>
storeVars == <<learningHistory, storage, correction, recorded>>
uplinkVars == <<forwardTo, blocks, pendingSends, sent>>
appVars == <<appState, appConfig, hostPc, report, teardown>>
hostVars == <<appVars, resultArray>>
vars == <<sessionVars, last, evalVars, storeVars, codec, uplinkVars, visualizer, hostVars>>

(***************************************************************************)
(* Bounds of the model.                                                    *)
(***************************************************************************)
MaxMessages == 2
MaxChunks == 2
MaxCalls == 2
MaxClock == 2
MaxRubric == 2
MaxResponse == 2
MaxBreakdown == 2
MaxSamples == 2
MaxBlocks == 2

(***************************************************************************)
(* Text.                                                                   *)
(***************************************************************************)
RECURSIVE TrimStart(_)
TrimStart(s) ==
    IF s = <<>> THEN <<>>
    ELSE IF Head(s) = " " THEN TrimStart(Tail(s)) ELSE s

RECURSIVE TrimEnd(_)
TrimEnd(s) ==
    IF s = <<>> THEN <<>>
    ELSE IF s[Len(s)] = " " THEN TrimEnd(SubSeq(s, 1, Len(s) - 1)) ELSE s

\* String.prototype.trim
Trim(s) == TrimEnd(TrimStart(s))

\* the characters of s that are not spaces
NonSpace(s) == SelectSeq(s, LAMBDA c : c # " ")

\* s holds a character that is not a space
NonBlank(s) == \E i \in 1..Len(s) : s[i] # " "

IsPrefix(s, t) == Len(s) <= Len(t) /\ SubSeq(t, 1, Len(s)) = s
IsSuffix(s, t) == Len(s) <= Len(t) /\ SubSeq(t, Len(t) - Len(s) + 1, Len(t)) = s

\* the texts of the entries of one speaker, concatenated
RECURSIVE RoleText(_, _)
RoleText(history, role) ==
    IF history = <<>> THEN <<>>
    ELSE (IF Head(history).role = role THEN Head(history).text ELSE <<>>)
           \o RoleText(Tail(history), role)

\* a test that every string passes
TruthyAlways(s) == TRUE

\* JavaScript truthiness of a string: the empty string is falsy
Truthy(s) == s # <<>>

Max(a, b) == IF a >= b THEN a ELSE b

\* An optional JavaScript value over S: <<>> is undefined, <<x>> is x
Option(S) == {<<>>} \cup {<<x>> : x \in S}

(***************************************************************************)
(* Inbound LiveServerMessage.serverContent.                                *)
(***************************************************************************)
\* the partial texts the agent and the customer deltas are drawn from
InputDeltas == {<<"a">>, <<" ">>}
OutputDeltas == {<<"b">>, <<" ">>}
ChunkDurations == {1, 2}
\* an inline audio chunk: one decodeAudioData accepts, with its decoded duration, or one
\* it throws on
AudioChunks ==
    [duration : ChunkDurations, wellFormed : {TRUE}]
      \cup {[duration |-> 0, wellFormed |-> FALSE]}

Messages ==
    [outputTranscription : Option(OutputDeltas),
     inputTranscription : Option(InputDeltas),
     turnComplete : BOOLEAN,
     interrupted : BOOLEAN,
     audio : Option(AudioChunks)]

NoMessage ==
    [outputTranscription |-> <<>>, inputTranscription |-> <<>>,
     turnComplete |-> FALSE, interrupted |-> FALSE, audio |-> <<>>]

\* the text an optional transcription field carries
Received(field) == IF field # <<>> THEN field[1] ELSE <<>>

\* the record kept in `last`: the operation, the connect() call it belongs to, its
\* message, and the transcript and playback state before it
Op(name, i, m) ==
    [op |-> name, call |-> i, msg |-> m,
     preCursor |-> nextStartTime,
     preSources |-> sources,
     preInput |-> currentInputTranscription,
     preOutput |-> currentOutputTranscription,
     preHistory |-> transcriptionHistory]

(***************************************************************************)
(* Transcript accumulator.                                                 *)
(***************************************************************************)
\* lines 134-135: the partial-text deltas of a message
InputAfterDelta(m, input) ==
    IF m.outputTranscription # <<>> THEN input
    ELSE IF m.inputTranscription # <<>> THEN input \o m.inputTranscription[1]
    ELSE input

OutputAfterDelta(m, output) ==
    IF m.outputTranscription # <<>> THEN output \o m.outputTranscription[1]
    ELSE output

\* a flush that inserts the new entries before the existing ones (Array.prototype.unshift)
PushBuffersFront(history, input, output) ==
    (IF Truthy(Trim(input)) THEN <<[role |-> "user", text |-> input]>> ELSE <<>>)
      \o (IF Truthy(Trim(output)) THEN <<[role |-> "model", text |-> output]>> ELSE <<>>)
      \o history

\* lines 137-138 and 179-180: push each buffer whose trimmed content is non-empty
PushBuffers(history, input, output) ==
    history
      \o (IF Truthy(Trim(input)) THEN <<[role |-> "user", text |-> input]>> ELSE <<>>)
      \o (IF Truthy(Trim(output)) THEN <<[role |-> "model", text |-> output]>> ELSE <<>>)

\* a flush that clears a buffer only when it pushed it (part_005 lines 330-337)
ClearedOnlyIfPushed(buffer) == IF Truthy(Trim(buffer)) THEN <<>> ELSE buffer

\* lines 139 and 181: the value a buffer holds after a flush
ClearedBuffer(buffer) == <<>>

(***************************************************************************)
(* The callers of the service.  LiveCall's effect (LiveCall.tsx 15-44)     *)
(* calls connect() when it runs and disconnect() in its cleanup; the root  *)
(* renders under React.StrictMode (types.ts 120-128), which runs effect,   *)
(* cleanup and effect again at mount, so a connect() may be issued while   *)
(* the connect() of a cleaned-up effect is still pending.  App's           *)
(* handleEndCall (App.tsx 68-72) calls disconnect() from the buttons shown *)
(* in the connected and in the error status.                               *)
(*                                                                         *)
(* Callbacks of the transport, of the browser and of the callers run one   *)
(* at a time, in any order.  A handler suspended in `await                 *)
(* decodeAudioData(...)` resumes in the order of the awaits: the function  *)
(* (audioUtils) has no await of its own, so its promise is settled when it *)
(* returns and the continuations are queued first in, first out.           *)
(***************************************************************************)
transcriptVars == <<transcriptionHistory, currentInputTranscription,
                    currentOutputTranscription>>
playbackVars == <<outputAudioContext, currentTime, nextStartTime, sources, decoding,
                  started>>

CallIds == DOMAIN calls

\* the LiveCall effect that issued call i has not been cleaned up
Mounted(i) == calls[i].mounted

\* a status update that runs only after the cleanup: `if (!mounted) setStatus(s)`
SetStatusUnmounted(i, s) == IF ~calls[i].mounted THEN s ELSE status

\* `if (mounted) setStatus(s)` in the callbacks the effect of call i passes
SetStatus(i, s) == IF Mounted(i) THEN s ELSE status

\* the open transport sessions
OpenTransports == {i \in CallIds : calls[i].transport = "open"}

\* AudioContexts constructed (lines 109-110) and microphone streams acquired (line 115)
\* so far; the class has no statement that closes a context or stops a track
OpenAudioContexts == 2 * Len(calls)
LiveMicrophoneStreams ==
    Cardinality({i \in CallIds : calls[i].pc \in {"handshake", "resolved"}
                                   \/ calls[i].transport # "none"})

\* q without its i-th element
\* a handler whose failure ends every suspended handler
WithoutAll(q, i) == <<>>

Without(q, i) == SubSeq(q, 1, i - 1) \o SubSeq(q, i + 1, Len(q))

\* the suspended handler that resumes next, were the continuations run last in, first out
ResumedLast(q) == Len(q)

\* the suspended handler that resumes next: the one that awaited first
ResumedFirst(q) == 1

(***************************************************************************)
(* connect(), lines 105-176, one action per suspension point.              *)
(***************************************************************************)
\* line 106, this.transcriptionHistory = []: the field gets a new array, and an
\* EvaluationResult that holds the old one keeps it as it is now
Replaced(ref) ==
    IF ref.array = Len(calls) THEN [ref EXCEPT !.transcription = transcriptionHistory]
    ELSE ref

\* connect() up to its await of getUserMedia, from the effect of a LiveCall just mounted
ConnectBody ==
    /\ Len(calls) < MaxCalls
    /\ \A i \in CallIds : ~Mounted(i)
    /\ calls' = Append(calls, [pc |-> "getUserMedia", transport |-> "none",
                               mounted |-> TRUE])
    /\ status' = "connecting"
    /\ transcriptionHistory' = <<>>
    /\ nextStartTime' = 0
    /\ outputAudioContext' = "running"
    /\ currentTime' = 0
    /\ heard' = [user |-> <<>>, model |-> <<>>]
    /\ started' = <<>>
    /\ decoding' = [k \in DOMAIN decoding |-> [decoding[k] EXCEPT !.solo = FALSE]]
    /\ resultArray' = Replaced(resultArray)
    /\ last' = Op("connect", Len(calls) + 1, NoMessage)
    /\ UNCHANGED <<currentInputTranscription, currentOutputTranscription, session,
                   capture, sources, nMessages,
                   evalVars, storeVars, codec, uplinkVars, visualizer>>

\* LiveCall's effect runs and connect() runs to its await of getUserMedia
Connect == ConnectBody /\ UNCHANGED appVars

\* lines 115-119: the microphone stream is granted, the capture nodes are created on
\* this.inputAudioContext and live.connect opens the transport
GetUserMediaResolves(i) ==
    /\ calls[i].pc = "getUserMedia"
    /\ calls' = [calls EXCEPT ![i].pc = "handshake", ![i].transport = "connecting"]
    /\ capture' = "created"
    /\ last' = Op("getUserMedia", i, NoMessage)
    /\ UNCHANGED <<transcriptVars, session, status, playbackVars, nMessages, heard,
                   evalVars, storeVars, codec, uplinkVars, visualizer, hostVars>>

\* a connect() that swallowed the rejection of getUserMedia and went on to live.connect
AfterDeniedCarriesOn(c) == [c EXCEPT !.pc = "handshake", !.transport = "connecting"]

\* line 115, `await getUserMedia(...)` throws: nothing in connect() catches it, so the
\* call ends there, rejected
AfterDenied(c) == [c EXCEPT !.pc = "rejected"]

\* line 115 throws: connect() rejects and LiveCall's catch (lines 30-33) runs
GetUserMediaRejects(i) ==
    /\ calls[i].pc = "getUserMedia"
    /\ calls' = [calls EXCEPT ![i] = AfterDenied(calls[i])]
    /\ status' = SetStatus(i, "error")
    /\ last' = Op("permissionDenied", i, NoMessage)
    /\ UNCHANGED <<transcriptVars, session, capture, playbackVars, nMessages, heard,
                   evalVars, storeVars, codec, uplinkVars, visualizer, hostVars>>

\* callbacks.onopen, lines 122-132: wires the nodes the fields hold now
OnOpen(i) ==
    /\ calls[i].transport = "connecting"
    /\ calls' = [calls EXCEPT ![i].transport = "open"]
    /\ capture' = IF capture = "null" THEN "null" ELSE "wired"
    /\ forwardTo' = IF capture = "null" THEN forwardTo ELSE i
    /\ last' = Op("onopen", i, NoMessage)
    /\ UNCHANGED <<transcriptVars, session, status, playbackVars, nMessages, heard,
                   evalVars, storeVars, codec, blocks, pendingSends, sent, visualizer,
                   hostVars>>

\* the sessionPromise of call i is fulfilled: the continuation of line 175 has run
Fulfilled(i) == calls[i].pc = "resolved"

\* callbacks run newest first
LastRunnable(q) ==
    CHOOSE k \in DOMAIN q :
        /\ Fulfilled(q[k].call)
        /\ \A j \in DOMAIN q : Fulfilled(q[j].call) => j <= k

\* the then-callback that runs next: the reactions of a promise run in the order in
\* which they were registered
FirstRunnable(q) ==
    CHOOSE k \in DOMAIN q :
        /\ Fulfilled(q[k].call)
        /\ \A j \in DOMAIN q : Fulfilled(q[j].call) => k <= j

\* audioProcessor.onaudioprocess, lines 124-129: a capture block of 4096 samples is
\* delivered and its send is registered on the sessionPromise of the handler's call
AudioProcess ==
    /\ capture = "wired"
    /\ forwardTo # 0
    /\ blocks < MaxBlocks
    /\ blocks' = blocks + 1
    /\ pendingSends' = Append(pendingSends, [block |-> blocks + 1, call |-> forwardTo])
    /\ last' = Op("audioprocess", forwardTo, NoMessage)
    /\ UNCHANGED <<sessionVars, evalVars, storeVars, codec, forwardTo, sent, visualizer,
                   hostVars>>

\* lines 126-128: the then-callback encodes its block and passes the frame to
\* session.sendRealtimeInput, which returns without waiting for the transport
SendRealtimeInput ==
    /\ \E k \in DOMAIN pendingSends : Fulfilled(pendingSends[k].call)
    /\ LET k == FirstRunnable(pendingSends)
       IN  /\ sent' = Append(sent, pendingSends[k])
           /\ pendingSends' = Without(pendingSends, k)
           /\ last' = Op("sendRealtimeInput", pendingSends[k].call, NoMessage)
    /\ UNCHANGED <<sessionVars, evalVars, storeVars, codec, forwardTo, blocks,
                   visualizer, hostVars>>

\* a sessionPromise that is fulfilled also after its transport has failed
OpenedOrFailed(c) == c.pc \in {"handshake", "rejected"} /\ c.transport \in {"open", "closed"}

\* lines 119 and 175: the sessionPromise of a call is fulfilled once its transport has
\* opened, and only if the transport has not ended during the handshake
Opened(c) == c.pc = "handshake" /\ c.transport = "open"

\* line 175: this.session = await sessionPromise; then LiveCall line 29
ConnectResolves(i) ==
    /\ Opened(calls[i])
    /\ session' = i
    /\ calls' = [calls EXCEPT ![i].pc = "resolved"]
    /\ status' = SetStatus(i, "connected")
    /\ last' = Op("connected", i, NoMessage)
    /\ UNCHANGED <<transcriptVars, capture, playbackVars, nMessages, heard,
                   evalVars, storeVars, codec, uplinkVars, visualizer, hostVars>>

\* callbacks.onclose / onerror, lines 164-165: the transport of call i ends and
\* onDisconnect() runs (LiveCall lines 25-27); a connect() still in its handshake rejects
TransportCloses(i, event) ==
    /\ calls[i].transport \in {"connecting", "open", "closing"}
    /\ calls' = [calls EXCEPT ![i].transport = "closed",
                              ![i].pc = IF @ = "handshake" THEN "rejected" ELSE @]
    /\ status' = SetStatus(i, "error")
    /\ last' = Op(event, i, NoMessage)
    /\ UNCHANGED <<transcriptVars, session, capture, playbackVars, nMessages, heard,
                   evalVars, storeVars, codec, uplinkVars, visualizer, hostVars>>

\* a cursor set to the clock alone: nextStartTime = currentTime
CursorAtClock(cursor, clock) == clock

\* line 143: Math.max(this.nextStartTime, this.outputAudioContext.currentTime)
CursorAtReceipt(cursor, clock) == Max(cursor, clock)

(***************************************************************************)
(* callbacks.onmessage, lines 133-163.  The handler runs to its await of   *)
(* decodeAudioData (OnMessage) and resumes when the decode has settled.    *)
(* serverContent.interrupted is not read anywhere in the handler.          *)
(***************************************************************************)
OnMessage(i, m) ==
    /\ calls[i].transport \in {"open", "closing"}
    /\ nMessages < MaxMessages
    /\ nMessages' = nMessages + 1
    /\ LET input == InputAfterDelta(m, currentInputTranscription)
           output == OutputAfterDelta(m, currentOutputTranscription)
       IN  IF m.turnComplete
           THEN /\ transcriptionHistory' = PushBuffers(transcriptionHistory, input, output)
                /\ currentInputTranscription' = ClearedBuffer(input)
                /\ currentOutputTranscription' = ClearedBuffer(output)
           ELSE /\ transcriptionHistory' = transcriptionHistory
                /\ currentInputTranscription' = input
                /\ currentOutputTranscription' = output
    /\ IF m.audio # <<>> /\ outputAudioContext # "null"
       THEN /\ nextStartTime' = CursorAtReceipt(nextStartTime, currentTime)
            /\ decoding' = Append(decoding,
                   [id |-> nMessages + 1, call |-> i, chunk |-> m.audio[1],
                    clock |-> currentTime, cursor |-> nextStartTime,
                    solo |-> decoding = <<>>])
       ELSE UNCHANGED <<nextStartTime, decoding>>
    /\ heard' = [user |-> heard.user \o NonSpace(Received(m.inputTranscription)),
                 model |-> heard.model \o NonSpace(Received(m.outputTranscription))]
    /\ last' = Op("message", i, m)
    /\ UNCHANGED <<session, calls, status, capture, outputAudioContext, currentTime,
                   sources, started,
                   evalVars, storeVars, codec, uplinkVars, visualizer, hostVars>>

\* lines 153-161, one run of updateVisualizer for the source of message id: with the
\* source in this.sources the frequency data go to the callback and the next frame is
\* requested, otherwise the loop ends
AfterFrame(v, id, active) ==
    [pending |-> IF active THEN v.pending \cup {id} ELSE v.pending \ {id},
     source |-> id,
     invoked |-> active]

\* the cursor is set to the length of the chunk
CursorAtDuration(cursor, duration) == duration

\* line 151: this.nextStartTime += audioBuffer.duration
CursorAfterStart(cursor, duration) == cursor + duration

\* lines 145-152, after decodeAudioData resolved: the source is started at the cursor
\* (a start time already passed starts the source at once) and the cursor advances
DecodeResolves ==
    /\ decoding # <<>>
    /\ LET k == ResumedFirst(decoding)
           h == decoding[k]
           source == [id |-> h.id, start |-> nextStartTime, duration |-> h.chunk.duration,
                      at |-> currentTime, context |-> Len(calls)]
       IN  /\ h.chunk.wellFormed
           /\ decoding' = Without(decoding, k)
           /\ sources' = sources \cup {source}
           /\ started' = Append(started,
                  [id |-> h.id, start |-> nextStartTime, duration |-> h.chunk.duration,
                   at |-> currentTime, clock |-> h.clock, cursor |-> h.cursor,
                   solo |-> h.solo /\ Len(decoding) = 1])
           /\ nextStartTime' = CursorAfterStart(nextStartTime, h.chunk.duration)
           /\ visualizer' = AfterFrame(visualizer, h.id, TRUE)
           /\ last' = Op("decoded", h.call, NoMessage)
    /\ UNCHANGED <<transcriptVars, session, calls, status, capture, outputAudioContext,
                   currentTime, nMessages, heard,
                   evalVars, storeVars, codec, uplinkVars, hostVars>>

\* decodeAudioData rejected (atob or the Int16Array view threw): the handler ends
DecodeRejects ==
    /\ decoding # <<>>
    /\ LET k == ResumedFirst(decoding)
       IN  /\ ~decoding[k].chunk.wellFormed
           /\ decoding' = Without(decoding, k)
           /\ last' = Op("decodeFailed", decoding[k].call, NoMessage)
    /\ UNCHANGED <<transcriptVars, session, calls, status, capture, outputAudioContext,
                   currentTime, nextStartTime, sources, started, nMessages, heard,
                   evalVars, storeVars, codec, uplinkVars, visualizer, hostVars>>

\* line 152: source.onended, once the source has played its buffer on its context
SourceEnded(s) ==
    /\ s \in sources
    /\ s.context = Len(calls) => currentTime >= Max(s.start, s.at) + s.duration
    /\ sources' = sources \ {s}
    /\ last' = Op("ended", 0, NoMessage)
    /\ UNCHANGED <<transcriptVars, session, calls, status, capture, outputAudioContext,
                   currentTime, nextStartTime, decoding, started, nMessages, heard,
                   evalVars, storeVars, codec, uplinkVars, visualizer, hostVars>>

\* a visualizer loop that never looks at the set
HasSourceAlways(id) == id = id

\* line 155: this.sources.has(source), for the source of message id
HasSource(id) == \E s \in sources : s.id = id

\* requestAnimationFrame(updateVisualizer) fires for the loop of source id (lines 154-160)
AnimationFrame(id) ==
    /\ id \in visualizer.pending
    /\ visualizer' = AfterFrame(visualizer, id, HasSource(id))
    /\ last' = Op("animationFrame", 0, NoMessage)
    /\ UNCHANGED <<sessionVars, evalVars, storeVars, codec, uplinkVars, hostVars>>

\* the playback clock of the output context advances
Tick ==
    /\ outputAudioContext = "running"
    /\ currentTime < MaxClock
    /\ currentTime' = currentTime + 1
    /\ last' = Op("tick", 0, NoMessage)
    /\ UNCHANGED <<transcriptVars, session, calls, status, capture, outputAudioContext,
                   nextStartTime, sources, decoding, started, nMessages, heard,
                   evalVars, storeVars, codec, uplinkVars, visualizer, hostVars>>

(***************************************************************************)
(* disconnect(), lines 178-187.                                            *)
(***************************************************************************)
\* line 182: session.close() starts the close of the transport this.session holds
AfterClose(cs) ==
    [i \in DOMAIN cs |->
        IF i = session /\ cs[i].transport = "open"
        THEN [cs[i] EXCEPT !.transport = "closing"]
        ELSE cs[i]]

\* the body of disconnect(), leaving the calls' records in cs
DisconnectBody(cs) ==
    /\ transcriptionHistory' =
           PushBuffers(transcriptionHistory, currentInputTranscription,
                       currentOutputTranscription)
    /\ currentInputTranscription' = ClearedBuffer(currentInputTranscription)
    /\ currentOutputTranscription' = ClearedBuffer(currentOutputTranscription)
    /\ calls' = AfterClose(cs)
    /\ capture' = IF capture = "null" THEN "null" ELSE "disconnected"
    /\ sources' = {}
    /\ last' = Op("disconnect", session, NoMessage)
    /\ UNCHANGED <<session, status, outputAudioContext, currentTime, nextStartTime,
                   decoding, started, nMessages, heard,
                   evalVars, storeVars, codec, uplinkVars, visualizer, resultArray>>

\* handleEndCall (App.tsx 68-72), from the End Call and Go Back buttons
Disconnect ==
    /\ \E i \in CallIds : Mounted(i)
    /\ status \in {"connected", "error"}
    /\ DisconnectBody(calls)
    /\ UNCHANGED appVars

\* the cleanup of LiveCall's effect (lines 38-42): mounted = false, then disconnect()
Unmount ==
    /\ \E i \in CallIds : Mounted(i)
    /\ DisconnectBody([i \in CallIds |-> [calls[i] EXCEPT !.mounted = FALSE]])
    /\ UNCHANGED appVars

(***************************************************************************)
(* generateEvaluation(), lines 189-279.                                    *)
(*                                                                         *)
(* The generator's outcome is a rejection of generateContent or a response *)
(* text: empty, not JSON, or the JSON text of a value.  A JSON value is    *)
(* tagged with its type; a rubric item keeps name and maxPoints (id and    *)
(* description are copied or formatted into the prompt only).              *)
(***************************************************************************)
CriterionNames == {"Greeting", "Closing"}
RubricItems ==
    {[name |-> "Greeting", maxPoints |-> 10],
     [name |-> "Closing", maxPoints |-> 10],
     [name |-> "Closing", maxPoints |-> 5]}
Scores == {-5, 5, 15}
Comments == {"", "ok"}
TotalScores == {-5, 50, 150}
Summaries == {"Good call."}
\* the maxPoints the generator writes into its own entries
ResponseMaxPoints == {20}

SeqsUpTo(S, n) == UNION {[1..k -> S] : k \in 0..n}

Configs ==
    [agentName : {"Ada"},
     structuredCriteria : Option(SeqsUpTo(RubricItems, MaxRubric))]

ResponseEntries ==
    {[t |-> "null"]}
      \cup [t : {"object"}, name : CriterionNames, score : Scores,
            maxPoints : ResponseMaxPoints, comment : Comments]

Breakdowns ==
    {[t |-> "undefined"], [t |-> "number"]}
      \cup {[t |-> "array", items |-> a] : a \in SeqsUpTo(ResponseEntries, MaxResponse)}

JsonValues ==
    {[t |-> "null"], [t |-> "number"]}
      \cup [t : {"object"}, totalScore : Option(TotalScores),
            summary : Option(Summaries), criteriaBreakdown : Breakdowns]

Outcomes ==
    {[kind |-> "rejects"], [kind |-> "empty"], [kind |-> "malformed"]}
      \cup {[kind |-> "json", value |-> v] : v \in JsonValues}

EmptyObject ==
    [t |-> "object", totalScore |-> <<>>, summary |-> <<>>,
     criteriaBreakdown |-> [t |-> "undefined"]]

\* line 251: JSON.parse(response.text || '{}')
JSONParse(o) ==
    CASE o.kind = "empty" -> [ok |-> TRUE, value |-> EmptyObject]
      [] o.kind = "malformed" -> [ok |-> FALSE]
      [] o.kind = "json" -> [ok |-> TRUE, value |-> o.value]

\* json.criteriaBreakdown, json.totalScore, json.summary of a non-null value
\* (a property of a number is undefined)
CriteriaBreakdownOf(json) ==
    IF json.t = "object" THEN json.criteriaBreakdown ELSE [t |-> "undefined"]
TotalScoreOf(json) == IF json.t = "object" THEN json.totalScore ELSE <<>>
SummaryOf(json) == IF json.t = "object" THEN json.summary ELSE <<>>

Min(a, b) == IF a <= b THEN a ELSE b

DefaultComment == "Criterion was not demonstrated during the call."
DefaultSummary == "No executive summary available."
ErrorSummary == "Error generating evaluation."

\* line 256: criteriaBreakdown.find(item => item.name === input.name), from index i;
\* reading .name of a null entry throws
RECURSIVE FindByName(_, _, _)
FindByName(items, name, i) ==
    IF i > Len(items) THEN [kind |-> "undefined"]
    ELSE IF items[i].t = "null" THEN [kind |-> "throws"]
    ELSE IF items[i].name = name THEN [kind |-> "found", item |-> items[i]]
    ELSE FindByName(items, name, i + 1)

\* line 256: json.criteriaBreakdown?.[idx] || json.criteriaBreakdown?.find(...)
AiItem(cb, idx, input) ==
    CASE cb.t = "undefined" -> [kind |-> "undefined"]
      [] cb.t = "number" -> [kind |-> "throws"]
      [] cb.t = "array" ->
            IF idx <= Len(cb.items) /\ cb.items[idx].t = "object"
            THEN [kind |-> "found", item |-> cb.items[idx]]
            ELSE FindByName(cb.items, input.name, 1)

\* line 261
ReconciledScore(ai, input) ==
    IF ai.kind = "found" THEN Min(ai.item.score, input.maxPoints) ELSE 0

\* the entry's comment whatever it is
EntryComment(ai) ==
    IF ai.kind = "found" THEN ai.item.comment ELSE DefaultComment

\* line 262
ReconciledComment(ai) ==
    IF ai.kind = "found" /\ ai.item.comment # "" THEN ai.item.comment ELSE DefaultComment

\* lines 257-263
ReconciledItem(ai, input) ==
    [t |-> "object", name |-> input.name, maxPoints |-> input.maxPoints,
     score |-> ReconciledScore(ai, input),
     comment |-> ReconciledComment(ai)]

\* lines 254-267: finalCriteria, or "throws"
FinalCriteria(config, json) ==
    IF config.structuredCriteria # <<>>
    THEN LET rubric == config.structuredCriteria[1]
             ai(idx) == AiItem(CriteriaBreakdownOf(json), idx, rubric[idx])
         IN  IF rubric # <<>> /\ json.t = "null" THEN [kind |-> "throws"]
             ELSE IF \E idx \in 1..Len(rubric) : ai(idx).kind = "throws"
             THEN [kind |-> "throws"]
             ELSE [kind |-> "value",
                   value |-> [t |-> "array",
                              items |-> [idx \in 1..Len(rubric) |->
                                            ReconciledItem(ai(idx), rubric[idx])]]]
    ELSE IF json.t = "null" THEN [kind |-> "throws"]
    ELSE LET cb == CriteriaBreakdownOf(json)
         IN  [kind |-> "value",
              value |-> IF cb.t = "undefined" THEN [t |-> "array", items |-> <<>>] ELSE cb]

\* line 271: json.totalScore || 0
ReturnedTotalScore(json) ==
    IF TotalScoreOf(json) # <<>> /\ TotalScoreOf(json)[1] # 0
    THEN TotalScoreOf(json)[1] ELSE 0

\* line 272: json.summary || "No executive summary available."
ReturnedSummary(json) ==
    IF SummaryOf(json) # <<>> /\ SummaryOf(json)[1] # ""
    THEN SummaryOf(json)[1] ELSE DefaultSummary

\* line 277: the catch block
CaughtResult(config, history) ==
    [agentName |-> config.agentName, totalScore |-> 0, summary |-> ErrorSummary,
     criteriaBreakdown |-> [t |-> "array", items |-> <<>>],
     transcription |-> history]

\* lines 244-278: the try block and its catch
EvaluationResultOf(config, o, history) ==
    IF o.kind = "rejects" \/ ~JSONParse(o).ok THEN CaughtResult(config, history)
    ELSE LET json == JSONParse(o).value
             final == FinalCriteria(config, json)
         IN  IF final.kind = "throws" \/ json.t = "null"
             THEN CaughtResult(config, history)
             ELSE [agentName |-> config.agentName,
                   totalScore |-> ReturnedTotalScore(json),
                   summary |-> ReturnedSummary(json),
                   criteriaBreakdown |-> final.value,
                   transcription |-> history]

\* lines 190-191: conversationText
ConversationText(history) ==
    [i \in 1..Len(history) |->
        [label |-> IF history[i].role = "user" THEN "AGENT" ELSE "CUSTOMER",
         text |-> history[i].text]]

\* the transcript as it was before the flush of a disconnect() that has just run
HistoryBeforeTeardown ==
    IF last.op = "disconnect" THEN last.preHistory ELSE transcriptionHistory

\* line 190: this.transcriptionHistory as generateEvaluation finds it when it is called
HistoryAtEvaluation == transcriptionHistory

\* generateEvaluation up to its await of generateContent (lines 189-249)
GenerateEvaluationBody(config) ==
    /\ evalPc # "awaiting"
    /\ evalPc' = "awaiting"
    /\ evalConfig' = config
    /\ prompt' = ConversationText(HistoryAtEvaluation)
    /\ last' = Op("generateEvaluation", 0, NoMessage)
    /\ UNCHANGED <<sessionVars, response, result, storeVars, codec, uplinkVars,
                   visualizer, resultArray>>

GenerateEvaluation(config) ==
    /\ evalPc = "idle"
    /\ GenerateEvaluationBody(config)
    /\ UNCHANGED appVars

\* lines 273 and 276, transcription: this.transcriptionHistory: the result holds the
\* array that the field holds now, not a copy of it
ArrayReturned == [array |-> Len(calls), transcription |-> <<>>]

\* the generator settles with outcome o and generateEvaluation returns (lines 251-278)
EvaluationReturnsBody(o) ==
    /\ evalPc = "awaiting"
    /\ evalPc' = "returned"
    /\ response' = o
    /\ result' = <<EvaluationResultOf(evalConfig, o, transcriptionHistory)>>
    /\ resultArray' = ArrayReturned
    /\ last' = Op("evaluated", 0, NoMessage)
    /\ UNCHANGED <<sessionVars, evalConfig, prompt, storeVars, codec, uplinkVars,
                   visualizer>>

EvaluationReturns(o) == EvaluationReturnsBody(o) /\ UNCHANGED appVars

(***************************************************************************)
(* The PCM codec of audioUtils (src/unnamed/part_002).  A float sample is  *)
(* the integer n that stands for n / SampleScale; SampleScale is twice     *)
(* 0x8000, so that samples half a quantization step apart are told apart   *)
(* and every product below is exact.                                       *)
(***************************************************************************)
SampleScale == 65536
NegativeFullScale == 32768
PositiveFullScale == 32767

\* the samples fed to the encoder: full scale, next to full scale, around zero, mid
\* range, and beyond full scale on either side
SampleValues == {-131072, -65536, -65535, -32769, -1, 0, 1, 3, 32768, 65535, 65536, 131072}

\* a clamp of the upper side only
ClampedAbove(n) == Min(SampleScale, n)

\* line 12: Math.max(-1, Math.min(1, data[i]))
Clamped(n) == Max(0 - SampleScale, Min(SampleScale, n))

\* the store of a number into an Int16Array: modulo 2^16, into [-32768, 32767]
WrapInt16(x) == ((x + 32768) % 65536) - 32768

\* a conversion that scales both signs by 0x8000
ToInt16Symmetric(n) ==
    WrapInt16(IF n < 0
              THEN 0 - ((0 - n) \div (SampleScale \div NegativeFullScale))
              ELSE n \div (SampleScale \div NegativeFullScale))

\* line 14: int16[i] = s < 0 ? s * 0x8000 : s * 0x7FFF, the product truncated toward
\* zero by the store; s * 0x8000 is n / (SampleScale / 0x8000)
ToInt16(n) ==
    WrapInt16(IF n < 0
              THEN 0 - ((0 - n) \div (SampleScale \div NegativeFullScale))
              ELSE (n * PositiveFullScale) \div SampleScale)

\* line 18: new Uint8Array(int16.buffer), two bytes per sample, low byte first
RECURSIVE BytesOf(_)
BytesOf(int16) ==
    IF int16 = <<>> THEN <<>>
    ELSE LET u == (Head(int16) + 65536) % 65536
         IN  <<u % 256, u \div 256>> \o BytesOf(Tail(int16))

\* btoa: three bytes make four symbols of six bits (0..63); 64 is the padding '='
RECURSIVE Btoa(_)
Btoa(bytes) ==
    IF bytes = <<>> THEN <<>>
    ELSE IF Len(bytes) = 1
    THEN <<bytes[1] \div 4, (bytes[1] % 4) * 16, 64, 64>>
    ELSE IF Len(bytes) = 2
    THEN <<bytes[1] \div 4, (bytes[1] % 4) * 16 + bytes[2] \div 16,
           (bytes[2] % 16) * 4, 64>>
    ELSE <<bytes[1] \div 4, (bytes[1] % 4) * 16 + bytes[2] \div 16,
           (bytes[2] % 16) * 4 + bytes[3] \div 64, bytes[3] % 64>>
         \o Btoa(SubSeq(bytes, 4, Len(bytes)))

\* atob, on the output of btoa
RECURSIVE Atob(_)
Atob(symbols) ==
    IF Len(symbols) < 4 THEN <<>>
    ELSE LET b1 == symbols[1] * 4 + symbols[2] \div 16
             b2 == (symbols[2] % 16) * 16 + symbols[3] \div 4
             b3 == (symbols[3] % 4) * 64 + symbols[4]
         IN  (IF symbols[3] = 64 THEN <<b1>>
              ELSE IF symbols[4] = 64 THEN <<b1, b2>>
              ELSE <<b1, b2, b3>>)
             \o Atob(SubSeq(symbols, 5, Len(symbols)))

\* line 52: new Int16Array(bytes.buffer), low byte first, two's complement
RECURSIVE Int16Of(_)
Int16Of(bytes) ==
    IF Len(bytes) < 2 THEN <<>>
    ELSE LET u == bytes[1] + 256 * bytes[2]
         IN  <<IF u >= 32768 THEN u - 65536 ELSE u>> \o Int16Of(SubSeq(bytes, 3, Len(bytes)))

\* lines 6-24
PcmToBase64Of(data) == Btoa(BytesOf([i \in DOMAIN data |-> ToInt16(Clamped(data[i]))]))

\* line 59, one channel: channelData[i] = dataInt16[i] / 32768.0, as a sample over
\* SampleScale
ChannelDataOf(base64) ==
    LET dataInt16 == Int16Of(Atob(base64))
    IN  [i \in DOMAIN dataInt16 |-> dataInt16[i] * (SampleScale \div NegativeFullScale)]

\* pcmToBase64(data)
PcmToBase64 ==
    /\ codec.pc = "input"
    /\ codec' = [pc |-> "encoded", data |-> codec.data,
                 base64 |-> PcmToBase64Of(codec.data)]
    /\ last' = Op("pcmToBase64", 0, NoMessage)
    /\ UNCHANGED <<sessionVars, evalVars, storeVars, uplinkVars, visualizer, hostVars>>

\* decodeAudioData(base64, ctx, rate) with one channel
DecodeAudioData ==
    /\ codec.pc = "encoded"
    /\ codec' = [pc |-> "decoded", data |-> codec.data, base64 |-> codec.base64,
                 channelData |-> ChannelDataOf(codec.base64)]
    /\ last' = Op("decodeAudioData", 0, NoMessage)
    /\ UNCHANGED <<sessionVars, evalVars, storeVars, uplinkVars, visualizer, hostVars>>

(***************************************************************************)
(* submitCorrection, lines 49-71, and the store it keeps.                  *)
(***************************************************************************)
\* line 69: the number of examples the store keeps
StoreLimit == 50

\* line 63: Date.now() during the call; the examples loaded from storage are older
DateNow == 1

\* the breakdown items of the AI's report and of the report a human has edited
AiItems == [name : CriterionNames, score : {5, 8}, comment : {"ok"}]
HumanItems == [name : CriterionNames, score : {5, 8}, comment : {"ok", "better"}]

\* EvaluationResult.criteriaBreakdown: undefined, or an array of items
BreakdownsOf(items) == Option(SeqsUpTo(items, MaxBreakdown))

\* line 54: original.criteriaBreakdown.find(i => i.name === humanItem.name)
RECURSIVE FindOriginal(_, _)
FindOriginal(items, name) ==
    IF items = <<>> THEN <<>>
    ELSE IF Head(items).name = name THEN <<Head(items)>>
    ELSE FindOriginal(Tail(items), name)

\* line 57
Differs(aiItem, humanItem) ==
    aiItem.score # humanItem.score \/ aiItem.comment # humanItem.comment

\* lines 58-64; serial is the example's number in recording order
Example(aiItem, humanItem, n) ==
    [criterionName |-> humanItem.name, aiComment |-> aiItem.comment,
     humanComment |-> humanItem.comment,
     scoreDifference |-> humanItem.score - aiItem.score,
     timestamp |-> DateNow, serial |-> n]

\* lines 53-67: corrected.criteriaBreakdown.forEach from item k on, unshifting onto
\* store; n counts the examples recorded
RECURSIVE Learned(_, _, _, _, _)
Learned(original, corrected, k, store, n) ==
    IF k > Len(corrected) THEN [store |-> store, n |-> n]
    ELSE LET humanItem == corrected[k]
             aiItem == FindOriginal(original, humanItem.name)
         IN  IF aiItem # <<>> /\ Differs(aiItem[1], humanItem)
             THEN Learned(original, corrected, k + 1,
                          <<Example(aiItem[1], humanItem, n + 1)>> \o store, n + 1)
             ELSE Learned(original, corrected, k + 1, store, n)

\* a store cut to its oldest entries: slice(-50)
TruncatedToOldest(store) ==
    IF Len(store) > StoreLimit
    THEN SubSeq(store, Len(store) - StoreLimit + 1, Len(store)) ELSE store

\* line 69: if (length > 50) learningHistory = learningHistory.slice(0, 50)
Truncated(store) ==
    IF Len(store) > StoreLimit THEN SubSeq(store, 1, StoreLimit) ELSE store

\* submitCorrection(original, corrected), the arguments being the criteriaBreakdown of
\* the two results
SubmitCorrection(original, corrected) ==
    /\ correction = <<>>
    /\ correction' = <<[original |-> original, corrected |-> corrected,
                        before |-> learningHistory, seen |-> recorded]>>
    /\ IF original = <<>> \/ corrected = <<>>
       THEN UNCHANGED <<learningHistory, storage, recorded>>
       ELSE LET l == Learned(original[1], corrected[1], 1, learningHistory, recorded)
            IN  /\ learningHistory' = Truncated(l.store)
                /\ recorded' = l.n
                /\ storage' = IF l.n > recorded THEN <<Truncated(l.store)>> ELSE storage
    /\ last' = Op("submitCorrection", 0, NoMessage)
    /\ UNCHANGED <<sessionVars, evalVars, codec, uplinkVars, visualizer, hostVars>>

\* lines 38-47: a store of n examples recorded by earlier sessions
Loaded(n) ==
    [k \in 1..n |->
        [criterionName |-> "Greeting", aiComment |-> "ok", humanComment |-> "better",
         scoreDifference |-> 3, timestamp |-> 0, serial |-> n + 1 - k]]

(***************************************************************************)
(* The call session.                                                       *)
(***************************************************************************)
NoConfig == [agentName |-> "Ada", structuredCriteria |-> <<>>]

SessionInit ==
    /\ transcriptionHistory = <<>>
    /\ currentInputTranscription = <<>>
    /\ currentOutputTranscription = <<>>
    /\ session = 0
    /\ calls = <<>>
    /\ status = "connecting"
    /\ capture = "null"
    /\ outputAudioContext = "null"
    /\ currentTime = 0
    /\ nextStartTime = 0
    /\ sources = {}
    /\ decoding = <<>>
    /\ started = <<>>
    /\ nMessages = 0
    /\ heard = [user |-> <<>>, model |-> <<>>]

\* no correction submitted, no block in the codec, no capture handler installed, no
\* visualizer loop started
StoreInit ==
    /\ learningHistory = <<>>
    /\ storage = <<>>
    /\ correction = <<>>
    /\ recorded = 0

CodecInit == codec = [pc |-> "idle"]

UplinkInit ==
    /\ forwardTo = 0
    /\ blocks = 0
    /\ pendingSends = <<>>
    /\ sent = <<>>

VisualizerInit == visualizer = [pending |-> {}, source |-> 0, invoked |-> FALSE]

\* no EvaluationResult returned yet
NoArray == [array |-> 0 - 1, transcription |-> <<>>]

\* App as mounted (App.tsx 20-22): SETUP, no config, nothing pending, no report
HostInit ==
    /\ appState = "SETUP"
    /\ appConfig = <<>>
    /\ hostPc = "idle"
    /\ report = <<>>
    /\ teardown = <<>>
    /\ resultArray = NoArray

(***************************************************************************)
(* FeedbackReport (FeedbackReport.tsx 11-48): the editable copy of the     *)
(* result and the effect that recomputes its totalScore whenever the       *)
(* criteria breakdown is a new array.  The quotient is computed exactly.   *)
(***************************************************************************)
\* lines 19-20: the two reduce calls
RECURSIVE TotalMax(_)
TotalMax(items) == IF items = <<>> THEN 0 ELSE Head(items).maxPoints + TotalMax(Tail(items))

RECURSIVE TotalEarned(_)
TotalEarned(items) == IF items = <<>> THEN 0 ELSE Head(items).score + TotalEarned(Tail(items))

\* Math.round of n / d for d > 0: the nearest integer, a half rounded up
MathRound(n, d) == (n * 2 + d) \div (d * 2)

\* lines 23-26
NormalizedScore(items) ==
    IF TotalMax(items) > 0 THEN MathRound(TotalEarned(items) * 100, TotalMax(items)) ELSE 0

\* lines 28-31: setEditableResult(prev => ({...prev, totalScore: normalizedScore}))
Recomputed(r) == [r EXCEPT !.totalScore = NormalizedScore(r.criteriaBreakdown)]

\* line 13 and the effect at mount: the editable copy of an EvaluationResult
ReportOf(breakdown, total) ==
    Recomputed([criteriaBreakdown |-> breakdown, totalScore |-> total])

\* line 173: parseInt(e.target.value) || 0, any integer the field is made to hold
EnteredScores == {-5, 0, 7, 15}
EnteredComments == {"ok", "better"}

\* handleScoreChange (lines 34-40) and the effect it triggers
HandleScoreChange(index, newScore) ==
    /\ appState = "REPORT"
    /\ report # <<>>
    /\ index \in DOMAIN report[1].criteriaBreakdown
    /\ report' = <<Recomputed([report[1] EXCEPT !.criteriaBreakdown[index].score = newScore])>>
    /\ last' = Op("handleScoreChange", 0, NoMessage)
    /\ UNCHANGED <<sessionVars, evalVars, storeVars, codec, uplinkVars, visualizer,
                   appState, appConfig, hostPc, teardown, resultArray>>

\* handleCommentChange (lines 42-48) and the effect it triggers
HandleCommentChange(index, newComment) ==
    /\ appState = "REPORT"
    /\ report # <<>>
    /\ index \in DOMAIN report[1].criteriaBreakdown
    /\ report' =
           <<Recomputed([report[1] EXCEPT !.criteriaBreakdown[index].comment = newComment])>>
    /\ last' = Op("handleCommentChange", 0, NoMessage)
    /\ UNCHANGED <<sessionVars, evalVars, storeVars, codec, uplinkVars, visualizer,
                   appState, appConfig, hostPc, teardown, resultArray>>

(***************************************************************************)
(* App (App.tsx 20-112): the four application states and the handlers that *)
(* move between them.  handleEndCall is one action per suspension point.   *)
(***************************************************************************)
\* handleStart, lines 27-30; LiveCall is rendered and its effect is due
HandleStart(c) ==
    /\ appState = "SETUP"
    /\ hostPc = "idle"
    /\ Len(calls) < MaxCalls
    /\ \A i \in CallIds : ~Mounted(i)
    /\ appState' = "CALL"
    /\ appConfig' = <<c>>
    /\ hostPc' = "mount"
    /\ last' = Op("handleStart", 0, NoMessage)
    /\ UNCHANGED <<sessionVars, evalVars, storeVars, codec, uplinkVars, visualizer,
                   report, teardown, resultArray>>

\* LiveCall's effect (LiveCall.tsx 15-36) runs for the call just started
LiveCallMounts ==
    /\ hostPc = "mount"
    /\ ConnectBody
    /\ hostPc' = "idle"
    /\ UNCHANGED <<appState, appConfig, report, teardown>>

\* handleEndCall, lines 68-71, from the buttons LiveCall shows in the connected and in
\* the error status: setAppState and the whole of disconnect(), up to the await
HandleEndCall ==
    /\ appState = "CALL"
    /\ hostPc = "idle"
    /\ \E i \in CallIds : Mounted(i)
    /\ status \in {"connected", "error"}
    /\ DisconnectBody(calls)
    /\ appState' = "GENERATING_REPORT"
    /\ hostPc' = "disconnected"
    /\ teardown' = <<[history |-> transcriptionHistory,
                      input |-> currentInputTranscription,
                      output |-> currentOutputTranscription]>>
    /\ UNCHANGED <<appConfig, report>>

\* LiveCall is no longer rendered: the cleanup of its effect runs
LiveCallUnmounts ==
    /\ appState # "CALL"
    /\ Unmount

\* handleEndCall resumes after `await geminiService.disconnect()`: lines 74-76, up to
\* the await inside generateEvaluation; with no config the handler ends
EndCallEvaluates ==
    /\ hostPc = "disconnected"
    /\ IF appConfig # <<>>
       THEN /\ GenerateEvaluationBody(appConfig[1])
            /\ hostPc' = "evaluating"
       ELSE /\ hostPc' = "idle"
            /\ last' = Op("handleEndCall", 0, NoMessage)
            /\ UNCHANGED <<sessionVars, evalVars, storeVars, codec, uplinkVars,
                           visualizer, resultArray>>
    /\ UNCHANGED <<appState, appConfig, report, teardown>>

\* the breakdown FeedbackReport can show: the entries of an array
ShownBreakdown(r) ==
    IF r.criteriaBreakdown.t = "array" THEN r.criteriaBreakdown.items ELSE <<>>

\* a catch block that leaves the application state as it is
StateAfterEvaluationKept(thrown) == IF thrown THEN "GENERATING_REPORT" ELSE "REPORT"

\* lines 78 and 89: setAppState('REPORT'), and setAppState('SETUP') in the catch
StateAfterEvaluation(thrown) == IF thrown THEN "SETUP" ELSE "REPORT"

\* handleEndCall resumes with the evaluation: lines 77-83 set the result and REPORT;
\* if onSessionComplete throws, the catch (lines 85-90) sets SETUP in the same batch
EndCallReturns(o, thrown) ==
    /\ hostPc = "evaluating"
    /\ EvaluationReturnsBody(o)
    /\ hostPc' = "idle"
    /\ appState' = StateAfterEvaluation(thrown)
    /\ report' = IF thrown THEN <<>>
                 ELSE <<ReportOf(ShownBreakdown(result'[1]), result'[1].totalScore)>>
    /\ UNCHANGED <<appConfig, teardown>>

\* lines 50-55: the breakdown of the mock result when no external criteria are given
MockBreakdown ==
    <<[t |-> "object", name |-> "Greeting", score |-> 10, maxPoints |-> 10,
       comment |-> "Clear and professional greeting."],
      [t |-> "object", name |-> "Verification", score |-> 10, maxPoints |-> 10,
       comment |-> "Correctly asked for customer number."],
      [t |-> "object", name |-> "Solution", score |-> 20, maxPoints |-> 30,
       comment |-> "Provided correct info, but missed one detail."],
      [t |-> "object", name |-> "Closing", score |-> 9, maxPoints |-> 10,
       comment |-> "Polite closing."]>>

\* line 36: the totalScore of the mock result
MockTotalScore == 85

\* handleMockTest, lines 32-66
HandleMockTest ==
    /\ appState = "SETUP"
    /\ hostPc = "idle"
    /\ appState' = "REPORT"
    /\ report' = <<ReportOf(MockBreakdown, MockTotalScore)>>
    /\ last' = Op("handleMockTest", 0, NoMessage)
    /\ UNCHANGED <<sessionVars, evalVars, storeVars, codec, uplinkVars, visualizer,
                   appConfig, hostPc, teardown, resultArray>>

\* handleRestart, lines 94-98, from FeedbackReport
HandleRestart ==
    /\ appState = "REPORT"
    /\ appState' = "SETUP"
    /\ appConfig' = <<>>
    /\ report' = <<>>
    /\ last' = Op("handleRestart", 0, NoMessage)
    /\ UNCHANGED <<sessionVars, evalVars, storeVars, codec, uplinkVars, visualizer,
                   hostPc, teardown, resultArray>>

Init ==
    /\ SessionInit
    /\ last = Op("new", 0, NoMessage)
    /\ evalPc = "idle"
    /\ evalConfig = NoConfig
    /\ prompt = <<>>
    /\ response = [kind |-> "none"]
    /\ result = <<>>
    /\ StoreInit
    /\ CodecInit
    /\ UplinkInit
    /\ VisualizerInit
    /\ HostInit

\* messages that carry text and turn boundaries only, messages that carry an audio
\* chunk only, and the interruption message
TextMessages == {m \in Messages : m.audio = <<>> /\ ~m.interrupted}
AudioMessages ==
    {m \in Messages : m.outputTranscription = <<>> /\ m.inputTranscription = <<>>
                      /\ ~m.turnComplete /\ ~m.interrupted /\ m.audio # <<>>}
Interruption == [NoMessage EXCEPT !.interrupted = TRUE]

TransportEvents == {"onclose", "onerror"}

\* connect() of call i has settled and its transport is closing, closed or never opened
Settled(i) ==
    /\ calls[i].pc \in {"resolved", "rejected"}
    /\ calls[i].transport \notin {"connecting", "open"}

\* every step of the service and its callers but the start of a call and the messages
Lifecycle ==
    \/ \E i \in CallIds : GetUserMediaResolves(i)
    \/ \E i \in CallIds : GetUserMediaRejects(i)
    \/ \E i \in CallIds : OnOpen(i)
    \/ \E i \in CallIds : ConnectResolves(i)
    \/ Disconnect
    \/ Unmount
    \/ \E i \in CallIds, event \in TransportEvents : TransportCloses(i, event)

\* calls one after another, fed with text and turn-boundary messages: LiveCall is
\* mounted for a new call once the connect() of the previous one has settled and its
\* transport is closing or closed
Next ==
    \/ (\A i \in CallIds : Settled(i)) /\ Connect
    \/ Lifecycle
    \/ \E i \in CallIds, m \in TextMessages : OnMessage(i, m)

Spec == Init /\ [][Next]_vars

\* one call, fed with audio chunks and interruption messages
AudioNext ==
    \/ calls = <<>> /\ Connect
    \/ Lifecycle
    \/ \E i \in CallIds, m \in AudioMessages \cup {Interruption} :
          nMessages < MaxChunks /\ OnMessage(i, m)
    \/ DecodeResolves
    \/ DecodeRejects
    \/ \E s \in sources : SourceEnded(s)
    \/ Tick

AudioSpec == Init /\ [][AudioNext]_vars

\* messages that carry a customer delta and an audio chunk
CaptionedChunks ==
    {m \in Messages : m.outputTranscription = <<<<"b">>>> /\ m.inputTranscription = <<>>
                      /\ ~m.turnComplete /\ ~m.interrupted /\ m.audio # <<>>}

\* a call connects: getUserMedia resolves, the transport opens, connect() resolves
Connects ==
    \/ calls = <<>> /\ Connect
    \/ \E i \in CallIds : GetUserMediaResolves(i)
    \/ \E i \in CallIds : OnOpen(i)
    \/ \E i \in CallIds : ConnectResolves(i)

\* one connected call fed with audio chunks, with and without text, some of which fail
\* to decode
DecodeFailureNext ==
    \/ Connects
    \/ \E i \in CallIds, m \in AudioMessages \cup CaptionedChunks :
          nMessages < MaxChunks /\ OnMessage(i, m)
    \/ DecodeResolves
    \/ DecodeRejects
    \/ \E s \in sources : SourceEnded(s)
    \/ Tick

DecodeFailureSpec == Init /\ [][DecodeFailureNext]_vars

\* the audio messages whose chunk decodes
PlayableMessages == {m \in AudioMessages : m.audio[1].wellFormed}

\* one connected call that plays the chunks it is fed, with the visualizer loops running
\* on animation frames, and is ended by the End Call button
VisualizerNext ==
    \/ Connects
    \/ \E i \in CallIds, m \in PlayableMessages :
          nMessages < MaxChunks /\ OnMessage(i, m)
    \/ DecodeResolves
    \/ \E s \in sources : SourceEnded(s)
    \/ Tick
    \/ \E id \in visualizer.pending : AnimationFrame(id)
    \/ Disconnect

VisualizerSpec == Init /\ [][VisualizerNext]_vars

\* one call with its capture pipeline: blocks are delivered while the nodes are wired
\* and the frames are sent once the session promise is fulfilled
CaptureNext ==
    \/ calls = <<>> /\ Connect
    \/ Lifecycle
    \/ AudioProcess
    \/ SendRealtimeInput

CaptureSpec == Init /\ [][CaptureNext]_vars

\* the callers under React.StrictMode: the effect may run again as soon as its cleanup
\* has run, whatever the state of the connect() it issued before
StrictModeNext ==
    \/ Connect
    \/ Lifecycle

StrictModeSpec == Init /\ [][StrictModeNext]_vars

(***************************************************************************)
(* The evaluation engine: a finished call's transcript, one evaluation.    *)
(***************************************************************************)
FinishedTranscripts ==
    {<<>>,
     <<[role |-> "model", text |-> <<"b">>], [role |-> "user", text |-> <<"a">>]>>}

\* the service after a call that was connected, fed and torn down
EvalInit ==
    /\ \E h \in FinishedTranscripts :
          /\ transcriptionHistory = h
          /\ nMessages = Len(h)
          /\ last = [op |-> "onclose", call |-> 1, msg |-> NoMessage, preCursor |-> 0,
                     preSources |-> {}, preInput |-> <<>>, preOutput |-> <<>>,
                     preHistory |-> h]
    /\ currentInputTranscription = <<>>
    /\ currentOutputTranscription = <<>>
    /\ session = 1
    /\ calls = <<[pc |-> "resolved", transport |-> "closed", mounted |-> FALSE]>>
    /\ status = "connected"
    /\ capture = "disconnected"
    /\ outputAudioContext = "running"
    /\ currentTime = 0
    /\ nextStartTime = 0
    /\ sources = {}
    /\ decoding = <<>>
    /\ started = <<>>
    /\ heard = [user |-> NonSpace(RoleText(transcriptionHistory, "user")),
                model |-> NonSpace(RoleText(transcriptionHistory, "model"))]
    /\ evalPc = "idle"
    /\ evalConfig = NoConfig
    /\ prompt = <<>>
    /\ response = [kind |-> "none"]
    /\ result = <<>>
    /\ StoreInit
    /\ CodecInit
    /\ UplinkInit
    /\ VisualizerInit
    /\ HostInit

EvalNext ==
    \/ evalPc = "idle" /\ \E config \in Configs : GenerateEvaluation(config)
    \/ evalPc = "awaiting" /\ \E o \in Outcomes : EvaluationReturns(o)

EvalSpec == EvalInit /\ [][EvalNext]_vars

(***************************************************************************)
(* The codec: a block of up to MaxSamples samples is encoded, then decoded.*)
(***************************************************************************)
CodecSpecInit ==
    /\ SessionInit
    /\ last = Op("new", 0, NoMessage)
    /\ evalPc = "idle"
    /\ evalConfig = NoConfig
    /\ prompt = <<>>
    /\ response = [kind |-> "none"]
    /\ result = <<>>
    /\ StoreInit
    /\ \E data \in SeqsUpTo(SampleValues, MaxSamples) : codec = [pc |-> "input", data |-> data]
    /\ UplinkInit
    /\ VisualizerInit
    /\ HostInit

CodecNext == PcmToBase64 \/ DecodeAudioData

CodecSpec == CodecSpecInit /\ [][CodecNext]_vars

(***************************************************************************)
(* The correction store: the service as constructed with the store that    *)
(* localStorage holds (empty, one short of full, full), and one            *)
(* submitCorrection for every pair of breakdowns.                          *)
(***************************************************************************)
StoredSizes == {0, StoreLimit - 1, StoreLimit}

CorrectionInit ==
    /\ SessionInit
    /\ last = Op("new", 0, NoMessage)
    /\ evalPc = "idle"
    /\ evalConfig = NoConfig
    /\ prompt = <<>>
    /\ response = [kind |-> "none"]
    /\ result = <<>>
    /\ \E n \in StoredSizes :
          /\ learningHistory = Loaded(n)
          /\ storage = IF n = 0 THEN <<>> ELSE <<Loaded(n)>>
          /\ recorded = n
    /\ correction = <<>>
    /\ CodecInit
    /\ UplinkInit
    /\ VisualizerInit
    /\ HostInit

CorrectionNext ==
    \E original \in BreakdownsOf(AiItems), corrected \in BreakdownsOf(HumanItems) :
        SubmitCorrection(original, corrected)

CorrectionSpec == CorrectionInit /\ [][CorrectionNext]_vars

(***************************************************************************)
(* The application: calls started from SETUP, fed with text, ended with    *)
(* End Call, evaluated and restarted.  HostSpec has the messages of the    *)
(* transport, handled also after disconnect(); AppSpec has the mock        *)
(* shortcut and no messages, and the conditions under which every promise  *)
(* App awaits is settled: disconnect() returns, and generateContent        *)
(* resolves or rejects.                                                    *)
(***************************************************************************)
HostConfigs == {NoConfig}

HostOutcomes ==
    {[kind |-> "rejects"],
     [kind |-> "json",
      value |-> [t |-> "object", totalScore |-> <<50>>, summary |-> <<"Good call.">>,
                 criteriaBreakdown |->
                     [t |-> "array",
                      items |-> <<[t |-> "object", name |-> "Greeting", score |-> 5,
                                   maxPoints |-> 20, comment |-> "ok"]>>]]]}

\* the messages of HostSpec: agent text and turn boundaries
HostMessages ==
    {m \in TextMessages : m.outputTranscription = <<>>
                          /\ m.inputTranscription \in {<<>>, << <<"a">> >>}}

\* the steps of a call's connect() and of its transport
CallSteps ==
    \/ \E i \in CallIds : GetUserMediaResolves(i)
    \/ \E i \in CallIds : GetUserMediaRejects(i)
    \/ \E i \in CallIds : OnOpen(i)
    \/ \E i \in CallIds : ConnectResolves(i)
    \/ \E i \in CallIds, event \in TransportEvents : TransportCloses(i, event)

\* App from one call to the report and back
AppSteps ==
    \/ \E c \in HostConfigs : HandleStart(c)
    \/ LiveCallMounts
    \/ HandleEndCall
    \/ LiveCallUnmounts
    \/ EndCallEvaluates
    \/ \E o \in HostOutcomes, thrown \in BOOLEAN : EndCallReturns(o, thrown)
    \/ HandleRestart

HostNext ==
    \/ AppSteps
    \/ CallSteps
    \/ \E i \in CallIds, m \in HostMessages : OnMessage(i, m)

HostSpec == Init /\ [][HostNext]_vars

AppNext ==
    \/ AppSteps
    \/ CallSteps
    \/ HandleMockTest

AppSpec ==
    /\ Init
    /\ [][AppNext]_vars
    /\ WF_vars(EndCallEvaluates)
    /\ WF_vars(\E o \in HostOutcomes, thrown \in BOOLEAN : EndCallReturns(o, thrown))

(***************************************************************************)
(* The report editor: FeedbackReport mounted with a result, and every edit *)
(* of a score or a comment.                                                *)
(***************************************************************************)
ReportItems ==
    [t : {"object"}, name : {"Greeting"}, score : {5}, maxPoints : {0, 10},
     comment : {"ok"}]

ReportTotals == {50}

ReportInit ==
    /\ SessionInit
    /\ last = Op("new", 0, NoMessage)
    /\ evalPc = "idle"
    /\ evalConfig = NoConfig
    /\ prompt = <<>>
    /\ response = [kind |-> "none"]
    /\ result = <<>>
    /\ StoreInit
    /\ CodecInit
    /\ UplinkInit
    /\ VisualizerInit
    /\ appState = "REPORT"
    /\ appConfig = <<NoConfig>>
    /\ hostPc = "idle"
    /\ teardown = <<>>
    /\ resultArray = NoArray
    /\ \E breakdown \in SeqsUpTo(ReportItems, MaxBreakdown), total \in ReportTotals :
          report = <<ReportOf(breakdown, total)>>

ReportNext ==
    \/ \E index \in 1..MaxBreakdown, newScore \in EnteredScores :
          HandleScoreChange(index, newScore)
    \/ \E index \in 1..MaxBreakdown, newComment \in EnteredComments :
          HandleCommentChange(index, newComment)

ReportSpec == ReportInit /\ [][ReportNext]_vars

(***************************************************************************)
(* Properties of the evaluation engine, checked under EvalSpec.            *)
(***************************************************************************)
Returned == evalPc = "returned"
Res == result[1]
Strict == evalConfig.structuredCriteria # <<>>
Rubric == evalConfig.structuredCriteria[1]
IsArray(v) == v.t = "array"

RECURSIVE SumScores(_)
SumScores(items) ==
    IF items = <<>> THEN 0 ELSE Head(items).score + SumScores(Tail(items))

RECURSIVE SumMaxPoints(_)
SumMaxPoints(items) ==
    IF items = <<>> THEN 0 ELSE Head(items).maxPoints + SumMaxPoints(Tail(items))

\* Math.round(n / d) for d > 0: the nearest integer, halves rounded up
RoundDiv(n, d) == (2 * n + d) \div (2 * d)

\* part_005 line 842: the comment of a degraded strict-mode entry
ManualReviewComment == "Error: Manual review required."

\* the response schema of lines 221-242: required fields present and rightly typed
ConformsToSchema(json) ==
    /\ json.t = "object"
    /\ json.totalScore # <<>>
    /\ json.summary # <<>>
    /\ json.criteriaBreakdown.t = "array"
    /\ \A i \in DOMAIN json.criteriaBreakdown.items :
          json.criteriaBreakdown.items[i].t = "object"

\* the generation call failed: network error, unparseable text, or a schema violation
GenerationFailed(o) ==
    \/ o.kind \in {"rejects", "malformed"}
    \/ o.kind = "json" /\ ~ConformsToSchema(o.value)

\* C1: in strict mode with a rubric of K items the returned criteriaBreakdown has
\* exactly K entries in rubric order, entry i carrying the name and maxPoints of
\* rubric item i, for every generator outcome including failed ones.
C1_StrictCardinality ==
    (Returned /\ Strict) =>
        /\ IsArray(Res.criteriaBreakdown)
        /\ Len(Res.criteriaBreakdown.items) = Len(Rubric)
        /\ \A i \in 1..Len(Rubric) :
              /\ Res.criteriaBreakdown.items[i].name = Rubric[i].name
              /\ Res.criteriaBreakdown.items[i].maxPoints = Rubric[i].maxPoints

\* C2: in strict mode every returned score lies in [0, maxPoints] of the original
\* rubric item, whatever score the generator returned for it.
C2_ScoreClamped ==
    (Returned /\ Strict /\ IsArray(Res.criteriaBreakdown)) =>
        \A i \in DOMAIN Res.criteriaBreakdown.items \cap DOMAIN Rubric :
            /\ 0 <= Res.criteriaBreakdown.items[i].score
            /\ Res.criteriaBreakdown.items[i].score <= Rubric[i].maxPoints

\* C3: rubric [Greeting 10, Closing 10] and a response breakdown of only
\* [Closing, 15, "ok"] give [Greeting 0 default comment, Closing 10 "ok"], total 50.
C3_ReconciliationScenario ==
    (/\ Returned
     /\ evalConfig.structuredCriteria =
            << <<[name |-> "Greeting", maxPoints |-> 10],
                 [name |-> "Closing", maxPoints |-> 10]>> >>
     /\ response.kind = "json"
     /\ response.value.t = "object"
     /\ response.value.criteriaBreakdown.t = "array"
     /\ Len(response.value.criteriaBreakdown.items) = 1
     /\ response.value.criteriaBreakdown.items[1].t = "object"
     /\ response.value.criteriaBreakdown.items[1].name = "Closing"
     /\ response.value.criteriaBreakdown.items[1].score = 15
     /\ response.value.criteriaBreakdown.items[1].comment = "ok")
    =>
        /\ Res.criteriaBreakdown =
              [t |-> "array",
               items |-> <<[t |-> "object", name |-> "Greeting", maxPoints |-> 10,
                            score |-> 0, comment |-> DefaultComment],
                           [t |-> "object", name |-> "Closing", maxPoints |-> 10,
                            score |-> 10, comment |-> "ok"]>>]
        /\ Res.totalScore = 50

\* C4: with a structured rubric the returned totalScore is
\* round(100 * sum of returned scores / sum of rubric maxPoints).
C4_TotalScoreRecomputed ==
    (Returned /\ Strict /\ IsArray(Res.criteriaBreakdown) /\ SumMaxPoints(Rubric) > 0) =>
        Res.totalScore =
            RoundDiv(100 * SumScores(Res.criteriaBreakdown.items), SumMaxPoints(Rubric))

\* C5: every returned result has 0 <= totalScore <= 100, in strict and inferred mode.
C5_TotalScoreInRange ==
    Returned => (0 <= Res.totalScore /\ Res.totalScore <= 100)

\* C6: when the generation call fails the result has totalScore 0, the standard error
\* summary, and a breakdown that is empty without a structured rubric and otherwise
\* has one entry per rubric item with score 0 and the manual-review comment.
C6_DegradedOnFailure ==
    (Returned /\ GenerationFailed(response)) =>
        /\ Res.totalScore = 0
        /\ Res.summary = ErrorSummary
        /\ Res.criteriaBreakdown =
              [t |-> "array",
               items |-> IF Strict
                         THEN [i \in 1..Len(Rubric) |->
                                 [t |-> "object", name |-> Rubric[i].name,
                                  maxPoints |-> Rubric[i].maxPoints, score |-> 0,
                                  comment |-> ManualReviewComment]]
                         ELSE <<>>]

\* C7: generateEvaluation always resolves with a result that carries every required
\* EvaluationResult field.
C7_WellTypedResult ==
    Returned =>
        /\ result # <<>>
        /\ {"agentName", "totalScore", "summary", "improvementSuggestions",
            "criteriaBreakdown", "transcription"} \subseteq DOMAIN Res

\* C8: called with an empty transcript, generateEvaluation returns totalScore 0 and a
\* defined summary, whatever the generator returns.
C8_EmptyTranscript ==
    (Returned /\ prompt = <<>>) =>
        /\ Res.totalScore = 0
        /\ Res.summary # ""

(***************************************************************************)
(* Properties of the transcript accumulator, checked under Spec.           *)
(***************************************************************************)
\* the entries the last operation appended
Appended ==
    SubSeq(transcriptionHistory, Len(last.preHistory) + 1, Len(transcriptionHistory))

\* the buffers at the turn boundary of the last message: its deltas applied
TurnInput == InputAfterDelta(last.msg, last.preInput)
TurnOutput == OutputAfterDelta(last.msg, last.preOutput)

\* the last operation appended exactly one entry per non-blank buffer, holding the
\* buffer's text, after the entries that were there, and left both buffers empty
FlushedExactly(input, output) ==
    /\ IsPrefix(last.preHistory, transcriptionHistory)
    /\ Len(Appended) = (IF NonBlank(input) THEN 1 ELSE 0) + (IF NonBlank(output) THEN 1 ELSE 0)
    /\ NonBlank(input) =>
          \E i \in DOMAIN Appended : Appended[i] = [role |-> "user", text |-> input]
    /\ NonBlank(output) =>
          \E i \in DOMAIN Appended : Appended[i] = [role |-> "model", text |-> output]
    /\ currentInputTranscription = <<>>
    /\ currentOutputTranscription = <<>>

\* disconnect() flushed the pending buffers as final entries and emptied them
FlushedAtTeardown ==
    last.op = "disconnect" => FlushedExactly(last.preInput, last.preOutput)

\* C9: disconnect() appends each buffer that holds non-whitespace text as a final
\* entry of its speaker and empties both buffers, so that after disconnect() no text
\* received before it is missing from the transcript.
C9_FlushOnTeardown ==
    last.op = "disconnect" =>
        /\ FlushedExactly(last.preInput, last.preOutput)
        /\ IsSuffix(heard.user, NonSpace(RoleText(transcriptionHistory, "user")))
        /\ IsSuffix(heard.model, NonSpace(RoleText(transcriptionHistory, "model")))

\* C10: on a message with turnComplete one entry is appended for each speaker buffer
\* whose trimmed content is non-empty, holding the buffer's accumulated text; a blank
\* buffer produces no entry; afterwards both buffers are empty.
C10_TurnComplete ==
    (last.op = "message" /\ last.msg.turnComplete) => FlushedExactly(TurnInput, TurnOutput)

\* a turn boundary closed a customer turn while the agent buffer held only whitespace
C10_Witness ==
    /\ last.op = "message"
    /\ last.msg.turnComplete
    /\ last.preInput = <<" ">>
    /\ TurnInput = <<" ">>
    /\ TurnOutput = <<"b">>
    /\ Appended = <<[role |-> "model", text |-> <<"b">>]>>
    /\ currentInputTranscription = <<>>

\* C11: between one connect() and the next every operation keeps the entries already
\* in the transcript as a prefix of it, so the entries of a later turn boundary follow
\* those of every earlier one; the transcript is emptied by connect() only.
C11_AppendOnly ==
    /\ last.op \notin {"new", "connect"} => IsPrefix(last.preHistory, transcriptionHistory)
    /\ last.op \notin {"new", "connect", "message", "disconnect"} =>
          transcriptionHistory = last.preHistory
    /\ (last.op = "message" /\ ~last.msg.turnComplete) =>
          transcriptionHistory = last.preHistory
    /\ last.op = "connect" => transcriptionHistory = <<>>

\* a second turn boundary appended its entry after the entry of the first turn
C11_Witness ==
    /\ last.op = "message"
    /\ last.msg.turnComplete
    /\ last.preHistory = <<[role |-> "user", text |-> <<"a">>]>>
    /\ transcriptionHistory =
          <<[role |-> "user", text |-> <<"a">>], [role |-> "model", text |-> <<"b">>]>>

(***************************************************************************)
(* Properties of the playback scheduler, checked under AudioSpec.          *)
(***************************************************************************)
\* the time at which a started source ends on the schedule
ScheduledEnd(c) == c.start + c.duration

\* C12: chunks handled one after another: each starts at the greater of the cursor and
\* the clock its handler read; a later one starts at the previous start plus the previous
\* duration, or at the clock it read if the clock has passed that point; after each
\* chunk nextStartTime is that chunk's start plus its duration.
C12_ContiguousScheduling ==
    /\ \A k \in DOMAIN started :
          started[k].solo =>
             /\ started[k].start = Max(started[k].cursor, started[k].clock)
             /\ (k > 1 /\ started[k - 1].solo) =>
                   started[k].start = Max(ScheduledEnd(started[k - 1]), started[k].clock)
    /\ (last.op = "decoded" /\ started # <<>>) =>
          nextStartTime = ScheduledEnd(started[Len(started)])

\* two chunks handled one after another, the second queued behind the first, which was
\* itself scheduled at a clock that had passed the cursor
C12_Witness ==
    /\ last.op = "decoded"
    /\ Len(started) = 2
    /\ started[1].solo /\ started[2].solo
    /\ started[1].cursor < started[1].clock
    /\ started[1].duration = 2
    /\ started[2].clock < ScheduledEnd(started[1])
    /\ started[2].start = ScheduledEnd(started[1])

C14_Interruption ==
    (last.op = "message" /\ last.msg.interrupted) =>
        /\ sources = {}
        /\ nextStartTime = 0
        /\ transcriptionHistory = last.preHistory
        /\ currentInputTranscription = last.preInput
        /\ currentOutputTranscription = last.preOutput

(***************************************************************************)
(* Properties of the call lifecycle.                                       *)
(***************************************************************************)
\* what disconnect() reads and writes: the fields of the service and the transports
ServiceState ==
    <<transcriptVars, session, [i \in CallIds |-> calls[i].transport], capture,
      playbackVars>>

\* no open transport, no capture block forwarded, no scheduled source
Idle ==
    /\ OpenTransports = {}
    /\ capture # "wired"
    /\ sources = {}

\* a disconnect() that directly follows a disconnect() changes nothing
DisconnectTwiceIsNoOp ==
    [][(last.op = "disconnect" /\ last'.op = "disconnect") => ServiceState' = ServiceState]_vars

\* C15: disconnect() twice in a row: the second call appends no entry and changes no
\* state, and the session is idle after each call.
C15_IdempotentDisconnect ==
    [][last'.op = "disconnect" =>
          /\ Idle'
          /\ last.op = "disconnect" => ServiceState' = ServiceState]_vars

\* C16: after disconnect() the microphone stream acquired by connect() is released and
\* both audio contexts it opened are closed.
C16_ResourcesReleased ==
    last.op = "disconnect" =>
        /\ LiveMicrophoneStreams = 0
        /\ OpenAudioContexts = 0

\* the handler that ran last, from its start or from its await of decodeAudioData, ran
\* on a transport that disconnect() had closed
LateMessage ==
    /\ last.op \in {"message", "decoded"}
    /\ calls[last.call].transport = "closing"

\* C17: a message handled after disconnect() has run, a handler that was suspended in
\* decodeAudioData included, changes neither the text buffers nor the transcript, adds
\* no source and does not advance nextStartTime.
C17_LateEventsDropped ==
    LateMessage =>
        /\ transcriptionHistory = last.preHistory
        /\ currentInputTranscription = last.preInput
        /\ currentOutputTranscription = last.preOutput
        /\ sources = last.preSources
        /\ nextStartTime = last.preCursor

\* C18: a connect() issued while an earlier connect() is pending or its session is
\* active does not take effect, and at most one transport session is open at any time.
C18_ExclusiveSession ==
    /\ last.op = "connect" => \A i \in CallIds \ {last.call} : Settled(i)
    /\ Cardinality(OpenTransports) <= 1

\* C19: once a connect() has settled whose effect was cleaned up, and so followed by a
\* disconnect(), its transport session is not open; and with every effect cleaned up
\* and no connect() pending no capture block is being forwarded.
C19_DefensiveTeardown ==
    /\ \A i \in CallIds :
          (~Mounted(i) /\ calls[i].pc \in {"resolved", "rejected"}) =>
              calls[i].transport # "open"
    /\ (\A i \in CallIds : ~Mounted(i) /\ calls[i].pc \in {"resolved", "rejected"}) =>
          capture # "wired"

\* C20: a transport error or close event of the call LiveCall is mounted for runs the
\* disconnect callback, which puts the call into the error status, and starts no
\* connect().
C20_TransportFailure ==
    [][last'.op \in TransportEvents =>
          /\ Mounted(last'.call) => status' = "error"
          /\ Len(calls') = Len(calls)
          /\ \A i \in CallIds : calls'[i].pc \in {calls[i].pc, "rejected"}]_vars

\* the transport of a connected, mounted call failed and the status became error
C20_Witness ==
    /\ last.op = "onerror"
    /\ Mounted(last.call)
    /\ calls[last.call].pc = "resolved"
    /\ calls[last.call].transport = "closed"
    /\ status = "error"

\* the connect() calls whose getUserMedia was denied
Denied == {i \in CallIds : calls[i].pc = "rejected" /\ calls[i].transport = "none"}

\* C21: when microphone access is denied connect() rejects, the mounted caller ends in
\* the error status, the call wires no capture and opens no transport session, then or
\* later, and no connect() is started by the rejection.
C21_PermissionDenied ==
    [][/\ last'.op = "permissionDenied" =>
             /\ last'.call \in Denied'
             /\ Mounted(last'.call) => status' = "error"
             /\ capture' = capture
             /\ session' = session
             /\ Len(calls') = Len(calls)
       /\ \A i \in Denied : i \in Denied']_vars

\* the microphone was denied to the call LiveCall is mounted for
C21_Witness ==
    /\ last.op = "permissionDenied"
    /\ Mounted(last.call)
    /\ last.call \in Denied
    /\ status = "error"

(***************************************************************************)
(* Properties of the correction store, checked under CorrectionSpec.       *)
(***************************************************************************)
\* submitCorrection ran with both breakdowns defined
Submitted == correction # <<>> /\ correction[1].original # <<>> /\ correction[1].corrected # <<>>
Original == correction[1].original[1]
Corrected == correction[1].corrected[1]

\* the examples the call recorded, newest first
NewExamples == SubSeq(learningHistory, 1, recorded - correction[1].seen)

\* the names of the original breakdown are pairwise different
UniqueNames(items) ==
    \A i, j \in DOMAIN items : items[i].name = items[j].name => i = j

\* the corrected items that have a same-named original item and differ from it
Edited ==
    {k \in DOMAIN Corrected :
        \E j \in DOMAIN Original :
            /\ Original[j].name = Corrected[k].name
            /\ Differs(Original[j], Corrected[k])}

\* C22: submitCorrection records exactly one example for each corrected item that has
\* a same-named original item and differs from it: none for identical breakdowns, and
\* each example's scoreDifference is the human score minus the AI score.
C22_OneExamplePerEdit ==
    Submitted =>
        /\ Original = Corrected => recorded = correction[1].seen
        /\ UniqueNames(Original) => recorded - correction[1].seen = Cardinality(Edited)
        /\ \A e \in DOMAIN NewExamples :
              \E k \in DOMAIN Corrected, j \in DOMAIN Original :
                  /\ Original[j].name = Corrected[k].name
                  /\ NewExamples[e].criterionName = Corrected[k].name
                  /\ NewExamples[e].scoreDifference =
                         Corrected[k].score - Original[j].score

\* C23: the store holds at most 50 examples, and they are the most recently recorded
\* ones, newest first.
C23_StoreBounded ==
    /\ Len(learningHistory) = Min(recorded, StoreLimit)
    /\ \A k \in DOMAIN learningHistory : learningHistory[k].serial = recorded + 1 - k

\* two examples were recorded into a full store
C23_Witness ==
    /\ Submitted
    /\ Len(correction[1].before) = StoreLimit
    /\ recorded = correction[1].seen + 2
    /\ Len(learningHistory) = StoreLimit
    /\ learningHistory[1].timestamp = DateNow

(***************************************************************************)
(* Properties of the codec, checked under CodecSpec.                       *)
(***************************************************************************)
\* a block of samples in [-1, 1] has been encoded and decoded
RoundTripped ==
    /\ codec.pc = "decoded"
    /\ \A i \in DOMAIN codec.data :
          0 - SampleScale <= codec.data[i] /\ codec.data[i] <= SampleScale

\* |a - b|
Distance(a, b) == IF a >= b THEN a - b ELSE b - a

\* 1 / 32768, one quantization step, in units of 1 / SampleScale
QuantizationStep == SampleScale \div NegativeFullScale

\* C24: for samples in [-1, 1], decoding the encoding gives an array of the same
\* length and order whose values are within 1/32768 of the input.
C24_RoundTrip ==
    RoundTripped =>
        /\ Len(codec.channelData) = Len(codec.data)
        /\ \A i \in DOMAIN codec.data :
              Distance(codec.data[i], codec.channelData[i]) <= QuantizationStep

\* C24 as the code has it: same length and order, every value less than 2/32768 from
\* the input, and within 1/32768 for a negative input.
C24_RoundTripTwoSteps ==
    RoundTripped =>
        /\ Len(codec.channelData) = Len(codec.data)
        /\ \A i \in DOMAIN codec.data :
              /\ Distance(codec.data[i], codec.channelData[i]) < 2 * QuantizationStep
              /\ codec.data[i] < 0 =>
                    Distance(codec.data[i], codec.channelData[i]) <= QuantizationStep

\* a block of two different samples, one of them next to full scale, went round
C24_Witness ==
    /\ RoundTripped
    /\ Len(codec.data) = 2
    /\ codec.data[1] = 65535
    /\ codec.data[2] = -1
    /\ codec.channelData[1] > codec.channelData[2]

(***************************************************************************)
(* Properties of decode failures, checked under DecodeFailureSpec, and of  *)
(* the visualizer, checked under VisualizerSpec.                           *)
(***************************************************************************)
\* the chunk of the message handled last is one decodeAudioData throws on
MalformedChunk(m) == m.audio # <<>> /\ ~m.audio[1].wellFormed

\* C25: a chunk that fails to decode gets no source: the active set and nextStartTime
\* stay as they are and the other suspended handlers stay suspended, to be scheduled
\* as usual; the text the same message carried has been appended to its buffer.
C25_DecodeFailureNonFatal ==
    [][/\ last'.op = "decodeFailed" =>
             /\ sources' = sources
             /\ started' = started
             /\ nextStartTime' = nextStartTime
             /\ decoding' = Tail(decoding)
             /\ transcriptVars' = transcriptVars
       /\ (last'.op = "message" /\ MalformedChunk(last'.msg)) =>
             /\ currentOutputTranscription' =
                    currentOutputTranscription \o Received(last'.msg.outputTranscription)
             /\ sources' = sources
             /\ nextStartTime' \in {nextStartTime, currentTime}]_vars

\* after a captioned chunk had failed to decode, the chunk of the next message was
\* started at the cursor, with the caption in the buffer
C25_Witness ==
    /\ last.op = "decoded"
    /\ Len(started) = 1
    /\ started[1].id = 2
    /\ started[1].start = started[1].clock
    /\ decoding = <<>>
    /\ currentOutputTranscription = <<"b">>
    /\ nextStartTime = started[1].start + started[1].duration

\* the messages whose source has been started
StartedIds == {started[k].id : k \in DOMAIN started}

\* C29: the frequency-data callback runs for a source only on a tick at which the
\* source is in the active set; on the first tick after its removal the loop stops
\* requesting frames, and it never runs again.
C29_VisualizerGating ==
    [][/\ (last'.op \in {"animationFrame", "decoded"} /\ visualizer'.invoked) =>
             \E s \in sources' : s.id = visualizer'.source
       /\ (last'.op = "animationFrame" /\ ~visualizer'.invoked) =>
             visualizer'.source \notin visualizer'.pending
       /\ \A id \in StartedIds :
             id \notin visualizer.pending => id \notin visualizer'.pending]_vars

\* disconnect() removed a source that was still playing, and its loop stopped on the
\* next frame
C29_Witness ==
    /\ last.op = "animationFrame"
    /\ ~visualizer.invoked
    /\ visualizer.pending = {}
    /\ \E k \in DOMAIN started :
          /\ started[k].id = visualizer.source
          /\ currentTime < started[k].start + started[k].duration
    /\ \E i \in CallIds : calls[i].transport = "closing"

(***************************************************************************)
(* Partial text, checked under Spec.                                       *)
(***************************************************************************)
\* C26: a message without a turn boundary appends each delta it carries to its own
\* speaker's buffer and appends no transcript entry, also when it carries a delta for
\* both speakers.
C26_PartialText ==
    (last.op = "message" /\ ~last.msg.turnComplete) =>
        /\ currentInputTranscription =
               last.preInput \o Received(last.msg.inputTranscription)
        /\ currentOutputTranscription =
               last.preOutput \o Received(last.msg.outputTranscription)
        /\ transcriptionHistory = last.preHistory

\* C26 for the messages that carry at most one delta
PartialTextOneDelta ==
    (/\ last.op = "message"
     /\ ~last.msg.turnComplete
     /\ last.msg.inputTranscription = <<>> \/ last.msg.outputTranscription = <<>>)
    => C26_PartialText

(***************************************************************************)
(* Reconciliation of single rubric items, checked under EvalSpec.          *)
(***************************************************************************)
\* the entries of a response that parsed and conforms to the schema
Entries ==
    IF response.kind = "json" THEN response.value.criteriaBreakdown.items ELSE <<>>

\* the entries that match rubric item i: the one at position i, and those of its name
Matching(i) ==
    {j \in DOMAIN Entries : j = i \/ Entries[j].name = Rubric[i].name}

\* generateEvaluation returned for a structured rubric and a conforming response
Reconciled == Returned /\ Strict /\ ~GenerationFailed(response)

\* rubric item i got score 0 and the default comment
Defaulted(i) ==
    /\ Res.criteriaBreakdown.items[i].score = 0
    /\ Res.criteriaBreakdown.items[i].comment = DefaultComment

\* C27: a rubric item with no entry at its position and none of its name gets score 0
\* and the default comment; an item with a matching entry takes that entry's comment
\* and min(entry score, maxPoints).
C27_UnmatchedDefaulted ==
    Reconciled =>
        \A i \in DOMAIN Rubric :
            IF Matching(i) = {}
            THEN Defaulted(i)
            ELSE \E j \in Matching(i) :
                    /\ Res.criteriaBreakdown.items[i].comment = Entries[j].comment
                    /\ Res.criteriaBreakdown.items[i].score =
                           Min(Entries[j].score, Rubric[i].maxPoints)

\* C27 as the code has it: the item takes the comment of a matching entry unless that
\* comment is empty, and the default comment then.
C27_UnmatchedOrEmptyDefaulted ==
    Reconciled =>
        \A i \in DOMAIN Rubric :
            IF Matching(i) = {}
            THEN Defaulted(i)
            ELSE \E j \in Matching(i) :
                    /\ Res.criteriaBreakdown.items[i].comment =
                           IF Entries[j].comment = "" THEN DefaultComment
                           ELSE Entries[j].comment
                    /\ Res.criteriaBreakdown.items[i].score =
                           Min(Entries[j].score, Rubric[i].maxPoints)

\* of two rubric items the first took the score of an entry whose comment is empty and
\* the second, with no entry at its position and none of its name, was defaulted
C27_Witness ==
    /\ Reconciled
    /\ Len(Rubric) = 2
    /\ Len(Entries) = 1
    /\ Entries[1].comment = ""
    /\ Entries[1].score = 5
    /\ Entries[1].name # Rubric[2].name
    /\ Res.criteriaBreakdown.items[1].score = 5
    /\ Defaulted(2)

(***************************************************************************)
(* Properties of the capture pipeline, checked under CaptureSpec.          *)
(***************************************************************************)
\* the blocks a sequence of sends is about
BlocksOf(q) == {q[k].block : k \in DOMAIN q}

\* C28: no frame is sent before the open acknowledgment of its transport; the frames
\* reach sendRealtimeInput in the order of the capture blocks, one frame per block;
\* and the only blocks not yet sent are those whose send is registered, in block order.
C28_CaptureOrdering ==
    /\ \A k \in DOMAIN sent : calls[sent[k].call].transport \notin {"none", "connecting"}
    /\ \A j, k \in DOMAIN sent : j < k => sent[j].block < sent[k].block
    /\ \A j, k \in DOMAIN pendingSends : j < k => pendingSends[j].block < pendingSends[k].block
    /\ BlocksOf(sent) \cup BlocksOf(pendingSends) = 1..blocks
    /\ BlocksOf(sent) \cap BlocksOf(pendingSends) = {}
    /\ \A j \in DOMAIN sent, k \in DOMAIN pendingSends : sent[j].block < pendingSends[k].block

\* two blocks were delivered before the session promise was fulfilled, and both
\* frames were then sent
C28_Witness ==
    /\ last.op = "sendRealtimeInput"
    /\ Len(sent) = 2
    /\ sent[1].block = 1
    /\ sent[2].block = 2
    /\ pendingSends = <<>>

(***************************************************************************)
(* The playback cursor within one call, checked under AudioSpec.           *)
(***************************************************************************)
\* the source started by the step
Starting == started'[Len(started')]

\* C30: within a call no step other than connect() lowers nextStartTime, whatever the
\* order in which the audio handlers are received and resumed, and a source is started
\* at a cursor that is not below the clock value its handler read at line 143.
C30_MonotonicCursor ==
    [][/\ last'.op # "connect" => nextStartTime' >= nextStartTime
       /\ last'.op = "decoded" =>
             /\ Starting.start = nextStartTime
             /\ Starting.start >= Starting.clock]_vars

\* two handlers were suspended at once with the cursor behind the clock; the clock went
\* on during the decodes, and the second source was started behind the first at a cursor
\* above both clock values read
C30_Witness ==
    /\ last.op = "decoded"
    /\ Len(started) = 2
    /\ ~started[2].solo
    /\ started[1].cursor < started[1].clock
    /\ started[1].clock < started[2].clock
    /\ started[2].start > started[2].clock
    /\ nextStartTime > started[2].start

(***************************************************************************)
(* The range of the encoder, checked under CodecSpec.                      *)
(***************************************************************************)
\* the 16-bit values carried by the encoded string
Encoded == Int16Of(Atob(codec.base64))

\* C31: every sample, beyond full scale or not, is encoded as a 16-bit value in
\* [-32768, 32767] of the sample's sign: -1 and below as -32768, 1 and above as 32767,
\* 0 as 0, a negative sample as s * 0x8000 and a non-negative one as s * 0x7FFF
\* truncated toward zero.
C31_EncodeRange ==
    codec.pc \in {"encoded", "decoded"} =>
        /\ Len(Encoded) = Len(codec.data)
        /\ \A i \in DOMAIN codec.data :
              LET n == codec.data[i]
                  v == Encoded[i]
              IN  /\ v \in (0 - NegativeFullScale)..PositiveFullScale
                  /\ n <= 0 - SampleScale => v = 0 - NegativeFullScale
                  /\ n >= SampleScale => v = PositiveFullScale
                  /\ n = 0 => v = 0
                  /\ (n < 0 /\ n > 0 - SampleScale) =>
                        /\ v <= 0
                        /\ v * (SampleScale \div NegativeFullScale) >= n
                        /\ (v - 1) * (SampleScale \div NegativeFullScale) < n
                  /\ (n > 0 /\ n < SampleScale) =>
                        /\ v >= 0
                        /\ v * SampleScale <= n * PositiveFullScale
                        /\ (v + 1) * SampleScale > n * PositiveFullScale

\* a block with a sample beyond full scale on either side has been encoded
C31_Witness ==
    /\ codec.pc = "encoded"
    /\ codec.data = <<-131072, 131072>>
    /\ Encoded = <<-32768, 32767>>

(***************************************************************************)
(* A response whose entries are those of the rubric in another order,      *)
(* checked under EvalSpec.                                                 *)
(***************************************************************************)
\* the positions of the response entries named as rubric item i
Named(i) == {j \in DOMAIN Entries : Entries[j].name = Rubric[i].name}

\* one entry for each rubric name, not in rubric order
Reordered ==
    /\ Reconciled
    /\ Len(Entries) = Len(Rubric)
    /\ \A i, k \in DOMAIN Rubric : Rubric[i].name = Rubric[k].name => i = k
    /\ \A i \in DOMAIN Rubric : Cardinality(Named(i)) = 1
    /\ \E i \in DOMAIN Rubric : Entries[i].name # Rubric[i].name

\* C33: when the response has exactly one entry for each rubric name, in another order
\* than the rubric, each returned item takes the comment and min(score, maxPoints) of
\* the entry of its own name.
C33_ReorderedResponse ==
    Reordered =>
        \A i \in DOMAIN Rubric :
            \A j \in Named(i) :
                /\ Res.criteriaBreakdown.items[i].score =
                       Min(Entries[j].score, Rubric[i].maxPoints)
                /\ Res.criteriaBreakdown.items[i].comment =
                       IF Entries[j].comment = "" THEN DefaultComment
                       ELSE Entries[j].comment

(***************************************************************************)
(* The entries of the transcript, checked under Spec.                      *)
(***************************************************************************)
\* C36: in every reachable state every transcript entry has the role user or model and
\* a text that holds a character other than whitespace.
C36_NoEmptyEntries ==
    \A k \in DOMAIN transcriptionHistory :
        /\ transcriptionHistory[k].role \in {"user", "model"}
        /\ NonBlank(transcriptionHistory[k].text)

\* a turn ended with a blank in the agent buffer and text in the customer buffer: one
\* entry was appended, the customer's
C36_Witness ==
    /\ last.op = "message"
    /\ last.msg.turnComplete
    /\ TurnInput = <<" ">>
    /\ NonBlank(TurnOutput)
    /\ transcriptionHistory = Append(last.preHistory, [role |-> "model", text |-> TurnOutput])

(***************************************************************************)
(* LiveCall's status, checked under Spec.                                  *)
(***************************************************************************)
\* the steps that run LiveCall's catch (lines 30-33) or its disconnect callback
\* (lines 25-27)
Failures == TransportEvents \cup {"permissionDenied"}

RECURSIVE IsSubsequence(_, _)
IsSubsequence(s, t) ==
    IF s = <<>> THEN TRUE
    ELSE IF t = <<>> THEN FALSE
    ELSE IF Head(s) = Head(t) THEN IsSubsequence(Tail(s), Tail(t))
    ELSE IsSubsequence(s, Tail(t))

\* C34: the entries of a call's transcript hold, per speaker, only text that was
\* received since that call's connect(); text left in a buffer before connect() is in
\* no entry of the new call.
C34_CallIsolation ==
    /\ IsSubsequence(NonSpace(RoleText(transcriptionHistory, "user")), heard.user)
    /\ IsSubsequence(NonSpace(RoleText(transcriptionHistory, "model")), heard.model)

(***************************************************************************)
(* The total score of the report editor, checked under ReportSpec.         *)
(***************************************************************************)
\* C39: whenever the breakdown of the report is set or edited its totalScore is
\* round(100 * sum of scores / sum of maxPoints), or 0 when the sum of maxPoints is 0,
\* and lies within 0 to 100 for every score entered in the editor.
C39_ReportTotalScore ==
    report # <<>> =>
        LET items == report[1].criteriaBreakdown
        IN  /\ report[1].totalScore =
                  IF SumMaxPoints(items) = 0 THEN 0
                  ELSE RoundDiv(100 * SumScores(items), SumMaxPoints(items))
            /\ report[1].totalScore \in 0..100

\* the totalScore is the rounded quotient, or 0 with no points to earn
ReportTotalRecomputed ==
    report # <<>> =>
        LET items == report[1].criteriaBreakdown
        IN  report[1].totalScore =
              IF SumMaxPoints(items) = 0 THEN 0
              ELSE RoundDiv(100 * SumScores(items), SumMaxPoints(items))

(***************************************************************************)
(* The end of a call in App, checked under HostSpec.                       *)
(***************************************************************************)
\* the transcript a teardown leaves: the entries it found and one entry for each buffer
\* that held text
Flushed(td) ==
    td.history
      \o (IF NonBlank(td.input) THEN <<[role |-> "user", text |-> td.input]>> ELSE <<>>)
      \o (IF NonBlank(td.output) THEN <<[role |-> "model", text |-> td.output]>> ELSE <<>>)

\* C32: handleEndCall starts generateEvaluation only when its disconnect() has run to
\* the end, and the transcript formatted into the prompt and the one returned begin with
\* the transcript that disconnect() left, entries flushed from the buffers included.
C32_EndCallOrdering ==
    [][/\ last'.op = "generateEvaluation" =>
             /\ hostPc = "disconnected"
             /\ IsPrefix(ConversationText(Flushed(teardown'[1])), prompt')
       /\ last'.op = "evaluated" =>
             IsPrefix(Flushed(teardown'[1]), result'[1].transcription)]_vars

\* End Call was pressed with agent text pending; the evaluation returned a transcript
\* whose last entry is that text, and the prompt held it
C32_Witness ==
    /\ last.op = "evaluated"
    /\ NonBlank(teardown[1].input)
    /\ result[1].transcription = Flushed(teardown[1])
    /\ prompt = ConversationText(result[1].transcription)
    /\ appState = "REPORT"

(***************************************************************************)
(* The transcription of a returned result, checked under HostSpec.         *)
(***************************************************************************)
\* what result.transcription shows: the content of the array the result holds
Transcription ==
    IF resultArray.array = Len(calls) THEN transcriptionHistory
    ELSE resultArray.transcription

\* C35: the transcription of a returned EvaluationResult is the transcript that was
\* formatted into the prompt, and no later step of the service changes it.
C35_ResultStability ==
    [][/\ Returned' => ConversationText(Transcription') = prompt'
       /\ (Returned /\ Returned') => Transcription' = Transcription]_vars

(***************************************************************************)
(* The application states, checked under AppSpec.                          *)
(***************************************************************************)
\* the moves between application states other than the mock shortcut
Moves ==
    {<<"SETUP", "CALL">>, <<"CALL", "GENERATING_REPORT">>,
     <<"GENERATING_REPORT", "REPORT">>, <<"GENERATING_REPORT", "SETUP">>,
     <<"REPORT", "SETUP">>}

\* C37: the application state changes only from SETUP to CALL, from CALL to
\* GENERATING_REPORT, from GENERATING_REPORT to REPORT or SETUP and from REPORT to
\* SETUP, and from SETUP to REPORT by handleMockTest alone; and GENERATING_REPORT is
\* always followed by REPORT or SETUP.
C37_HostProgress ==
    /\ [][appState' # appState =>
             \/ <<appState, appState'>> \in Moves
             \/ /\ <<appState, appState'>> = <<"SETUP", "REPORT">>
                /\ last'.op = "handleMockTest"]_vars
    /\ (appState = "GENERATING_REPORT") ~> (appState \in {"REPORT", "SETUP"})

\* the evaluation of an ended call returned and onSessionComplete threw: App is back
\* in SETUP with nothing of handleEndCall pending
C37_Witness ==
    /\ last.op = "evaluated"
    /\ appState = "SETUP"
    /\ hostPc = "idle"
    /\ response.kind = "rejects"

====
